---- MODULE Spec2Model ----
(***************************************************************************)
(* A model of the scene/mesh core of MakeHuman (mh_core/module3d.py):      *)
(* Scene3D's object list, picking-colour allocation and selection, its     *)
(* event registration and dispatch, and the Vert -> backend slot updates.  *)
(***************************************************************************)
EXTENDS Integers, Sequences, FiniteSets, TLC

\* Python's None where an int is expected (an index, a uid, a flag, a handler).
None == 0 - 1
\* Python's None where a FaceGroup, a colour or a pair is expected.
NoGroup == <<>>

\* ------------------------------------------------------------------ bounds
\* Objects ever created by newObj in one run.
MaxObjs == 3
\* Face groups added to one object.
MaxGroups == 2

\* Face groups of the first and of the second object of an allocation run.
MaxAllocGroups == 260
MaxAllocGroups2 == 2

\* The sizes of the first object in an allocation run: around the first
\* two-digit ids, around the low byte's wrap at 255, and the largest.
AllocSizes == {0, 1, 11, 12, 254, 255, MaxAllocGroups}

\* connect calls in one run.
MaxConnects == 2

\* The event names Scene3D.connect stores in a field of the scene.
SceneKinds ==
  {"LMOUSEP", "RMOUSEP", "LMOUSER", "RMOUSER", "MOUSEWHEELUP", "MOUSEWHEELDOWN",
   "MOTION", "PMOTION", "KEYBOARD", "UP_ARROW", "DOWN_ARROW", "LEFT_ARROW",
   "RIGHT_ARROW", "TIMER", "LEFT_CTRL", "RIGHT_CTRL", "LEFT_SHIFT",
   "RIGHT_SHIFT", "LEFT_ALT"}
\* The event names Scene3D.disconnect clears on the scene.
SceneDisconnectKinds ==
  {"LMOUSEP", "RMOUSEP", "LMOUSER", "RMOUSER", "MOUSEWHEELUP", "MOUSEWHEELDOWN",
   "MOTION", "PMOTION", "KEYBOARD", "UP_ARROW", "DOWN_ARROW", "LEFT_ARROW",
   "RIGHT_ARROW", "TIMER"}
\* The event names whose field Scene3D.disconnectAllEvents resets.
SceneResetKinds == SceneKinds \ {"TIMER"}
\* The event names Scene3D.connect stores in a field of an Object3D.
ObjKinds ==
  {"LMOUSEP", "RMOUSEP", "LMOUSER", "RMOUSER", "MOUSEWHEELUP", "MOUSEWHEELDOWN",
   "MOTION"}
\* Single-character event names, and a name connect does not know.
Chars == {"a"}
UnknownNames == {"FOO"}

\* Scene3D's key codes.
UP_ARROW == 273
DOWN_ARROW == 274
RIGHT_ARROW == 275
LEFT_ARROW == 276
RIGHT_SHIFT == 303
LEFT_SHIFT == 304
RIGHT_CTRL == 305
LEFT_CTRL == 306
LEFT_ALT == 308

\* Object names passed to newObj / deleteObj.
Names == {"a", "b"}

\* Colours the picking pass may report (mh.getColorPicked): allocated ids,
\* ids whose concatenated key coincides with another id's, and background.
PickColors ==
  {<<1, 0, 0>>, <<2, 0, 0>>, <<3, 0, 0>>, <<11, 0, 0>>, <<1, 10, 0>>,
   <<255, 255, 255>>}

VARIABLES
  heap,              \* every Object3D ever built: uid -> its fields
  objects,           \* Scene3D.objects: the uids in list order
  colorID,           \* Scene3D.colorID
  faceGroupColorID,  \* Scene3D.faceGroupColorID: key -> FaceGroup
  lastAlloc,         \* FaceGroup -> the id the most recent update() gave it
  lastOp,            \* the operation that produced this state
  sceneCB,           \* Scene3D.scene...Callback fields, by event name
  keyboardEventsDict,\* Scene3D.keyboardEventsDict: key code -> handler
  nConnect,          \* connect calls so far: call k passes handler k
  reg,               \* slot -> handlers passed to connect since its last disconnect
  calls,             \* the handlers the last event invoked, in order
  verts,             \* Object3D.verts of one object: its Vert fields
  backend,           \* the renderer's buffers: <<objID, slot>> -> values
  lastUpd,           \* the vertex operation that produced this state
  mhObjs,            \* the object ids the renderer holds: 0..mhObjs-1
  textureCache,      \* module3d.textureCache: path -> Texture
  files,             \* the texture files on disk: path -> modification time
  lastSet,           \* the Object3D method call that produced this state
  mesh,              \* FaceGroup.faces: face list -> its faces
  sent,              \* per object, the mh.setAllCoord calls of the last update()
  undoStack,         \* MHApplication.undoStack
  redoStack,         \* MHApplication.redoStack
  modified,          \* MHApplication.modified
  lastDo,            \* action -> what its most recent action.do() returned
  lastApp            \* the MHApplication call that produced this state

sceneVars == <<heap, objects, colorID, faceGroupColorID, lastAlloc, lastOp>>
eventVars == <<sceneCB, keyboardEventsDict, nConnect, reg, calls>>
vertVars == <<verts, backend, lastUpd>>
objVars == <<mhObjs, textureCache, files, lastSet>>
meshVars == <<mesh, sent>>
appVars == <<undoStack, redoStack, modified, lastDo, lastApp>>

\* ------------------------------------------------------------ Object3D
\* A list attribute that holds the list the object's own constructor (or the
\* constructors of its own FaceGroups) made; any other value is the uid of
\* the object whose lists it shares.
Own == 0

\* An attribute that __init__ does not assign.
Missing == 0 - 2

\* Object3D.__init__: the fields the scene operations read and write; loc,
\* rot and scale stand for (x, y, z), (rx, ry, rz) and (sx, sy, sz), and the
\* empty string for the None of texture. verts and faces are references to
\* lists, fgFaces to the face lists of the groups in facesGroups, and
\* fgPrefix is what the names of the groups start with. The assignment of
\* colors is commented out in the source.
Object3D(objName) ==
  [name |-> objName, idx |-> None, nGroups |-> 0,
   isSelected |-> None, faceGroupSelected |-> NoGroup,
   callBack |-> [k \in ObjKinds |-> None],
   loc |-> 0, rot |-> 0, scale |-> 1, texture |-> "",
   verts |-> Own, faces |-> Own, fgFaces |-> Own, fgPrefix |-> <<>>,
   colors |-> Missing]

\* A FaceGroup is named by its parent object and its position in
\* parent.facesGroups: <<uid, k>>.
parent(g) == g[1]

\* Object3D.addFaceGroup: fg.parent = self; self.facesGroups.append(fg).
addFaceGroup(o) == [o EXCEPT !.nGroups = @ + 1]

\* obj.facesGroups, in list order.
facesGroups(h, u) == [k \in 1..h[u].nGroups |-> <<u, k>>]

\* The object whose list a list attribute refers to.
ListOf(u, ref) == IF ref = Own THEN u ELSE ref

\* fg.name, as the sequence of the strings it is concatenated from: the
\* names given by instanceObj, then the loader's name for the k-th group.
fgName(h, g) == h[g[1]].fgPrefix \o <<g[2]>>

\* fg.faces, as the FaceGroup whose constructor made the list.
fgFaces(h, g) == <<ListOf(g[1], h[g[1]].fgFaces), g[2]>>

\* ------------------------------------------------------------ helpers
RECURSIVE str(_)
\* Python's str() of a non-negative int: its decimal digits.
str(n) == IF n < 10 THEN <<n>> ELSE str(n \div 10) \o <<n % 10>>

\* The dictionary key of a colour: str(r)+str(g)+str(b).
IDkey(c) == str(c[1]) \o str(c[2]) \o str(c[3])

\* d[k] = v on a Python dict.
DictSet(d, k, v) == (k :> v) @@ d

\* del s[i] on a 0-based Python list held as a 1-based sequence.
DelAt(s, i) == [j \in 1..(Len(s) - 1) |-> IF j <= i THEN s[j] ELSE s[j + 1]]

\* The last operation: its name, the object name and the sampled colour it
\* was called with, and the FaceGroup it resolved.
Op(o, n, c, r) ==
  [op |-> o, name |-> n, pick |-> c, res |-> r, obj |-> None, key |-> None]

\* The last event call: the event name, the colour under the mouse, the
\* target object, and the key code, button or mouse state.
EvOp(o, n, c, ob, k) ==
  [op |-> o, name |-> n, pick |-> c, res |-> NoGroup, obj |-> ob, key |-> k]

\* ------------------------------------------------------------ Vert
\* The default colour of a vertex and the values a field is given.
White == 255
MaxVal == 1
MaxVerts == 2
MaxSlots == 2
VertVals == 0..MaxVal
VertColors == {White, 0}
Flags == {None, 1}
SlotIds == 0..(MaxSlots - 1)

\* Vert.__init__(co, idx, obIdx): co and colour stand for the whole lists.
Vert(co, obIdx) ==
  [co |-> co, no |-> 0, objID |-> obIdx, indicesInFullVertArray |-> <<>>,
   color |-> White]

\* Python's truth test on an int-or-None argument.
IsTrue(flag) == flag # None /\ flag # 0

\* The renderer's per-slot setters.
setVertCoord(b, objID, i, co) == [b EXCEPT ![<<objID, i>>].coord = co]
setNormCoord(b, objID, i, no) == [b EXCEPT ![<<objID, i>>].norm = no]
setColorCoord2(b, objID, i, color) == [b EXCEPT ![<<objID, i>>].color = color]

\* for i in self.indicesInFullVertArray: set(self.objID, i, value), from the
\* k-th listed slot on.
RECURSIVE ForSlots(_, _, _, _, _)
ForSlots(b, v, k, value, field) ==
  IF k > Len(v.indicesInFullVertArray) THEN b
  ELSE LET i == v.indicesInFullVertArray[k]
           b1 == CASE field = "coord" -> setVertCoord(b, v.objID, i, value)
                   [] field = "norm" -> setNormCoord(b, v.objID, i, value)
                   [] OTHER -> setColorCoord2(b, v.objID, i, value)
       IN  ForSlots(b1, v, k + 1, value, field)

\* A Vert.update that skips the normals.
Vert_update_NoNormal(b, v, updateNor, updateCoo, updateCol, colorIndexToUpdate) ==
  IF IsTrue(updateCoo) THEN ForSlots(b, v, 1, v.co, "coord") ELSE b

\* A Vert.update that sends the colour to every listed slot whatever
\* colorIndexToUpdate says.
Vert_update_AllSlotsColor(b, v, updateNor, updateCoo, updateCol, colorIndexToUpdate) ==
  LET b1 == IF IsTrue(updateCoo) THEN ForSlots(b, v, 1, v.co, "coord") ELSE b
      b2 == IF IsTrue(updateNor) THEN ForSlots(b1, v, 1, v.no, "norm") ELSE b1
  IN  IF IsTrue(updateCol) THEN ForSlots(b2, v, 1, v.color, "color") ELSE b2

\* Vert.update(updateNor, updateCoo, updateCol, colorIndexToUpdate): the
\* renderer's buffers afterwards.
Vert_update(b, v, updateNor, updateCoo, updateCol, colorIndexToUpdate) ==
  LET b1 == IF IsTrue(updateCoo) THEN ForSlots(b, v, 1, v.co, "coord") ELSE b
      b2 == IF IsTrue(updateNor) THEN ForSlots(b1, v, 1, v.no, "norm") ELSE b1
  IN  IF IsTrue(updateCol)
      THEN IF colorIndexToUpdate = None
           THEN ForSlots(b2, v, 1, v.color, "color")
           ELSE setColorCoord2(b2, v.objID, colorIndexToUpdate, v.color)
      ELSE b2

\* Object3D.update(indexToUpdate): v.update() on each listed vertex, from the
\* k-th entry on.
RECURSIVE Object3D_update(_, _, _)
Object3D_update(b, indexToUpdate, k) ==
  IF k > Len(indexToUpdate) THEN b
  ELSE Object3D_update(Vert_update(b, verts[indexToUpdate[k] + 1], 1, 1, None, None),
                       indexToUpdate, k + 1)

\* The scene runs have no vertices.
NoVerts == verts = <<>> /\ backend = <<>> /\ lastUpd = [op |-> "init"]

\* mh.init3DScene(nObjs): the renderer then holds the object ids 0..nObjs-1.
init3DScene(nObjs) == nObjs

\* MHApplication.loadMainGui: both stacks empty, nothing modified.
NoActions ==
  /\ undoStack = <<>>
  /\ redoStack = <<>>
  /\ modified = FALSE
  /\ lastDo = <<>>
  /\ lastApp = [op |-> "init"]

\* The renderer after an update() of n objects, with no texture loaded yet.
Rendered(n) ==
  /\ mhObjs = init3DScene(n)
  /\ textureCache = <<>>
  /\ files = <<>>
  /\ lastSet = [op |-> "init"]
  /\ mesh = <<>>
  /\ sent = [i \in 1..n |-> <<>>]

\* ------------------------------------------------------------ Scene3D
\* Scene3D.__init__.
InitScene ==
  /\ heap = <<>>
  /\ objects = <<>>
  /\ colorID = <<0, 0, 0>>
  /\ faceGroupColorID = <<>>
  /\ lastAlloc = <<>>
  /\ lastOp = Op("init", "", <<>>, <<>>)
  /\ sceneCB = [k \in SceneKinds |-> None]
  /\ keyboardEventsDict = <<>>
  /\ nConnect = 0
  /\ reg = <<>>
  /\ calls = <<>>
  /\ NoVerts
  /\ Rendered(0)
  /\ NoActions

\* Scene3D.newObj(name).
newObj(name) ==
  /\ Len(heap) < MaxObjs
  /\ heap' = Append(heap, [Object3D(name) EXCEPT !.idx = Len(objects)])
  /\ objects' = Append(objects, Len(heap) + 1)
  /\ lastOp' = Op("newObj", name, <<>>, <<>>)
  /\ UNCHANGED <<colorID, faceGroupColorID, lastAlloc, eventVars, vertVars, objVars, meshVars, appVars>>

\* The mesh loader's obj.addFaceGroup(FaceGroup(...)): the loader fills the
\* object it has just created, before anything else runs.
AddFaceGroup(u) ==
  /\ u = Len(heap)
  /\ lastOp.op \in {"newObj", "addFaceGroup"}
  /\ heap[u].nGroups < MaxGroups
  /\ heap' = [heap EXCEPT ![u] = addFaceGroup(@)]
  /\ lastOp' = Op("addFaceGroup", "", <<>>, <<>>)
  /\ UNCHANGED <<objects, colorID, faceGroupColorID, lastAlloc, eventVars, vertVars, objVars, meshVars, appVars>>

\* The first position (0-based) of scene.objects whose object has this name.
FirstNamed(name) ==
  LET hits == {i \in 1..Len(objects) : heap[objects[i]].name = name}
  IN  IF hits = {} THEN None
      ELSE heap[objects[CHOOSE i \in hits : \A j \in hits : i <= j]].idx

\* Python's truth value of indexToDelete: None and 0 are false.
Truthy(indexToDelete) == indexToDelete # None /\ indexToDelete # 0

\* The list after the optional del self.objects[indexToDelete].
AfterDelete(name) ==
  IF Truthy(FirstNamed(name)) THEN DelAt(objects, FirstNamed(name))
  ELSE objects

\* Scene3D.deleteObj(name): the search, the delete and the renumbering.
deleteObj(name) ==
  /\ objects' = AfterDelete(name)
  /\ heap' = [u \in DOMAIN heap |->
                IF \E i \in 1..Len(objects') : objects'[i] = u
                THEN [heap[u] EXCEPT
                        !.idx = (CHOOSE i \in 1..Len(objects') : objects'[i] = u) - 1]
                ELSE heap[u]]
  /\ lastOp' = Op("deleteObj", name, <<>>, <<>>)
  /\ UNCHANGED <<colorID, faceGroupColorID, lastAlloc, eventVars, vertVars, objVars, meshVars, appVars>>

\* An increment whose low byte wraps without the carry.
NextColorID_NoCarry(c) == <<(c[1] + 1) % 255, c[2], c[3]>>

\* The colour counter after one step of assignSelectionID's increment.
NextColorID(c) ==
  IF c[1] + 1 >= 255
  THEN IF c[2] + 1 >= 255 THEN <<0, 0, c[3] + 1>> ELSE <<0, c[2] + 1, c[3]>>
  ELSE <<c[1] + 1, c[2], c[3]>>

\* One pass of assignSelectionID's loop body for group g, from the state
\* st = [colorID, table, alloc, fcol, sent]: g takes the next id, which is
\* written on its faces (fcol: the f.colorID of the faces of a face list) and
\* entered in the table under its key.
AssignOne(g, st) ==
  LET id == NextColorID(st.colorID)
  IN  [colorID |-> id,
       table |-> DictSet(st.table, IDkey(id), g),
       alloc |-> DictSet(st.alloc, g, id),
       fcol |-> DictSet(st.fcol, fgFaces(heap, g), id),
       sent |-> st.sent]

RECURSIVE AssignRange(_, _, _, _)
\* The loop body applied to gs[lo], ..., gs[hi] in that order. The range is
\* halved, and the first half's result is looked at before the second half
\* starts, only to keep the evaluation shallow; the order is the loop's.
AssignRange(gs, lo, hi, st) ==
  IF lo > hi THEN st
  ELSE IF lo = hi THEN AssignOne(gs[lo], st)
  ELSE LET mid  == (lo + hi) \div 2
           left == AssignRange(gs, lo, mid, st)
       IN  IF left.colorID # <<>>
           THEN AssignRange(gs, mid + 1, hi, left)
           ELSE left

\* Scene3D.assignSelectionID(obj) for obj.facesGroups = gs.
assignSelectionID(gs, st) == AssignRange(gs, 1, Len(gs), st)

\* ------------------------------------------------------------ faces
MaxUV == 1

\* Face(v0, v1, v2) with its uv: the corner vertices' idx and the corner uv
\* indices (<<>> for the None of uv); color is None and no the zero vector.
Face(vs, uv) == [verts |-> vs, uv |-> uv, color |-> <<>>, no |-> 0]

\* fUV = f.uv, or [-1, -1, -1] if that is None.
fUV(f) == IF f.uv = <<>> THEN <<0 - 1, 0 - 1, 0 - 1>> ELSE f.uv

\* g.faces of a face group of the scene.
groupFaces(g) ==
  IF fgFaces(heap, g) \in DOMAIN mesh THEN mesh[fgFaces(heap, g)] ELSE <<>>

\* The record of mh.setAllCoord(obj.idx, coIdx, colIdx, v.co, v.no, f.colorID,
\* faceColor[i]) for a corner of a face of group g: the vertex, the uv index
\* that made the slot, the group, and the face's colorID.
setAllCoord(st, v, uv, g) ==
  [v |-> v, uv |-> uv, group |-> g, colorID |-> st.fcol[fgFaces(heap, g)]]

\* A corner pass that keeps one groupVerts for the whole object.
sendCorner_PerObject(st, f, g, i) ==
  LET v == f.verts[i]
      uv == fUV(f)[i]
      seen == UNION {st.groupVerts[x] : x \in {y \in DOMAIN st.groupVerts : y[2] = v}}
  IN  IF uv \notin seen
      THEN [groupVerts |-> IF <<g, v>> \in DOMAIN st.groupVerts
                           THEN [st.groupVerts EXCEPT ![<<g, v>>] = @ \cup {uv}]
                           ELSE DictSet(st.groupVerts, <<g, v>>, {uv}),
            calls |-> Append(st.calls, setAllCoord(st, v, uv, g)),
            fcol |-> st.fcol]
      ELSE st

\* A corner pass that gives every corner a slot of its own.
sendCorner_NoSharing(st, f, g, i) ==
  [groupVerts |-> st.groupVerts,
   calls |-> Append(st.calls, setAllCoord(st, f.verts[i], fUV(f)[i], g)),
   fcol |-> st.fcol]

\* The body of "for v in f.verts" in Scene3D.update for corner i of face f of
\* group g: st.groupVerts is the dictionary of the group (keyed here by group
\* and vertex, a new group starting with no key), st.calls the
\* mh.setAllCoord calls of the object so far, the k-th writing slot k - 1.
sendCorner(st, f, g, i) ==
  LET v == f.verts[i]
      uv == fUV(f)[i]
      key == <<g, v>>
  IN  IF key \notin DOMAIN st.groupVerts
      THEN [groupVerts |-> DictSet(st.groupVerts, key, {uv}),
            calls |-> Append(st.calls, setAllCoord(st, v, uv, g)),
            fcol |-> st.fcol]
      ELSE IF uv \notin st.groupVerts[key]
      THEN [groupVerts |-> [st.groupVerts EXCEPT ![key] = @ \cup {uv}],
            calls |-> Append(st.calls, setAllCoord(st, v, uv, g)),
            fcol |-> st.fcol]
      ELSE st

\* for f in g.faces, from face fi on.
RECURSIVE sendFaces(_, _, _)
sendFaces(st, g, fi) ==
  IF fi > Len(groupFaces(g)) THEN st
  ELSE LET f == groupFaces(g)[fi]
       IN  sendFaces(sendCorner(sendCorner(sendCorner(st, f, g, 1), f, g, 2), f, g, 3),
                     g, fi + 1)

\* for g in obj.facesGroups, over the groups lo, ..., hi in that order. The
\* range is halved, and the first half's result is looked at before the
\* second half starts, only to keep the evaluation shallow.
RECURSIVE sendGroups(_, _, _, _)
sendGroups(st, u, lo, hi) ==
  IF lo > hi THEN st
  ELSE IF lo = hi THEN sendFaces(st, <<u, lo>>, 1)
  ELSE LET mid  == (lo + hi) \div 2
           left == sendGroups(st, u, lo, mid)
       IN  IF Len(left.calls) >= 0
           THEN sendGroups(left, u, mid + 1, hi)
           ELSE left

\* The mh.setAllCoord calls Scene3D.update makes for one object, the faces
\* carrying the colorID of fcol.
sendObject(u, fcol) ==
  sendGroups([groupVerts |-> <<>>, calls |-> <<>>, fcol |-> fcol],
             u, 1, heap[u].nGroups).calls

RECURSIVE updateFrom(_, _)
\* The loop of Scene3D.update over self.objects from position i: the ids of
\* the object's groups are assigned, then its slots are sent.
updateFrom(i, st) ==
  IF i > Len(objects) THEN st
  ELSE LET st1 == assignSelectionID(facesGroups(heap, objects[i]), st)
       IN  updateFrom(i + 1,
             [st1 EXCEPT !.sent = Append(@, sendObject(objects[i], st1.fcol))])

\* ------------------------------------------------------------ textures
MaxMtime == 3
Paths == {"p", "q"}

\* Texture(id, modified).
Texture(id, mtime) == [id |-> id, modified |-> mtime]

\* The handle mh.LoadTexture(path, 0) returns for a texture it creates.
NewTextureId(cache) == Cardinality(DOMAIN cache) + 1

\* The handle passed to mh.setObjTexture(self.idx, id); an IndexError it
\* raises is caught and printed.
setObjTexture(idx, id) == id

\* A setTexture that reloads a cached texture on every call.
setTextureCalls_AlwaysLoad(cache, path, mtime, idx, loadOk) ==
  IF path \in DOMAIN cache
  THEN IF ~loadOk THEN [cache |-> cache, loaded |-> 1, bound |-> None]
       ELSE [cache |-> [cache EXCEPT ![path].modified = mtime], loaded |-> 1,
             bound |-> setObjTexture(idx, cache[path].id)]
  ELSE IF ~loadOk THEN [cache |-> cache, loaded |-> 1, bound |-> None]
       ELSE [cache |-> DictSet(cache, path, Texture(NewTextureId(cache), mtime)),
             loaded |-> 1, bound |-> setObjTexture(idx, NewTextureId(cache))]

\* A setTexture that caches and binds the handle of a load that failed.
setTextureCalls_CacheFailed(cache, path, mtime, idx, loadOk) ==
  IF path \in DOMAIN cache
  THEN IF mtime # cache[path].modified
       THEN [cache |-> [cache EXCEPT ![path].modified = mtime], loaded |-> 1,
             bound |-> setObjTexture(idx, cache[path].id)]
       ELSE [cache |-> cache, loaded |-> 0, bound |-> setObjTexture(idx, cache[path].id)]
  ELSE [cache |-> DictSet(cache, path, Texture(NewTextureId(cache), mtime)),
        loaded |-> 1, bound |-> setObjTexture(idx, NewTextureId(cache))]

\* The body of Object3D.setTexture(path) after self.texture = path, for a
\* file of modification time mtime and a loader that succeeds or raises
\* RuntimeError: the cache afterwards, the number of mh.LoadTexture calls and
\* the handle passed to mh.setObjTexture (None if it is not called).
setTextureCalls(cache, path, mtime, idx, loadOk) ==
  IF path \in DOMAIN cache
  THEN IF mtime # cache[path].modified
       THEN IF ~loadOk
            THEN [cache |-> cache, loaded |-> 1, bound |-> None]
            ELSE [cache |-> [cache EXCEPT ![path].modified = mtime], loaded |-> 1,
                  bound |-> setObjTexture(idx, cache[path].id)]
       ELSE [cache |-> cache, loaded |-> 0, bound |-> setObjTexture(idx, cache[path].id)]
  ELSE IF ~loadOk
       THEN [cache |-> cache, loaded |-> 1, bound |-> None]
       ELSE [cache |-> DictSet(cache, path, Texture(NewTextureId(cache), mtime)),
             loaded |-> 1, bound |-> setObjTexture(idx, NewTextureId(cache))]

\* if obj.texture: obj.setTexture(obj.texture), for the objects from
\* position i on.
RECURSIVE updateTextures(_, _, _)
updateTextures(i, cache, loadOk) ==
  IF i > Len(objects) THEN cache
  ELSE LET obj == heap[objects[i]]
       IN  updateTextures(i + 1,
             IF obj.texture # ""
             THEN setTextureCalls(cache, obj.texture, files[obj.texture], obj.idx,
                                  loadOk).cache
             ELSE cache,
             loadOk)

\* The table update() starts from.
TableAtUpdate == faceGroupColorID

\* A rebuild that carries the counter over from the previous one.
resetColorID_Keep == colorID

\* self.colorID = [0,0,0]: the counter update() starts from.
resetColorID == <<0, 0, 0>>

\* Scene3D.update(), recorded as op: the counter is reset, then every object
\* is re-sent.
updateAs(loadOk, op) ==
  LET st == updateFrom(1, [colorID |-> resetColorID,
                           table |-> TableAtUpdate,
                           alloc |-> <<>>,
                           fcol |-> <<>>,
                           sent |-> <<>>])
  IN  /\ colorID' = st.colorID
      /\ faceGroupColorID' = st.table
      /\ lastAlloc' = st.alloc
      /\ lastOp' = op
      /\ mhObjs' = init3DScene(Len(objects))
      /\ textureCache' = updateTextures(1, textureCache, loadOk)
      /\ sent' = st.sent
      /\ UNCHANGED <<heap, objects, eventVars, vertVars, files, lastSet, mesh, appVars>>

\* Scene3D.update().
update(loadOk) == updateAs(loadOk, Op("update", "", <<>>, <<>>))

\* A lookup that resolves a colour absent from the table to some entry.
getSelectedFacesGroup_AnyEntry(picked) ==
  IF IDkey(picked) \in DOMAIN faceGroupColorID
  THEN faceGroupColorID[IDkey(picked)]
  ELSE IF DOMAIN faceGroupColorID = {} THEN NoGroup
       ELSE faceGroupColorID[CHOOSE k \in DOMAIN faceGroupColorID : TRUE]

\* Scene3D.getSelectedFacesGroup with mh.getColorPicked() = picked.
getSelectedFacesGroup(picked) ==
  IF IDkey(picked) \in DOMAIN faceGroupColorID
  THEN faceGroupColorID[IDkey(picked)]
  ELSE NoGroup

\* Scene3D.getPickedObject: (facegroupPicked, objPicked) or None.
getPickedObject(picked) ==
  IF getSelectedFacesGroup(picked) # NoGroup
  THEN <<getSelectedFacesGroup(picked), parent(getSelectedFacesGroup(picked))>>
  ELSE NoGroup

\* Scene3D.getSelectedObject: the first object of the list flagged isSelected.
getSelectedObject(h) ==
  LET sel == {i \in 1..Len(objects) : h[objects[i]].isSelected # None}
  IN  IF sel = {} THEN None
      ELSE objects[CHOOSE i \in sel : \A j \in sel : i <= j]

\* A deselectAll that clears nothing.
deselectAll_Noop(h) == h

\* Scene3D.deselectAll: clears the flag of the first selected object and stops.
deselectAll(h) ==
  IF getSelectedObject(h) = None THEN h
  ELSE [h EXCEPT ![getSelectedObject(h)].isSelected = None]

\* Scene3D.selectObject with mh.getColorPicked() = picked.
selectObject(picked) ==
  LET h1 == IF getSelectedObject(heap) # None THEN deselectAll(heap) ELSE heap
      pickedInfo == getPickedObject(picked)
  IN  /\ heap' = IF pickedInfo # NoGroup
                 THEN [h1 EXCEPT ![pickedInfo[2]].isSelected = 1,
                                 ![pickedInfo[2]].faceGroupSelected = pickedInfo[1]]
                 ELSE h1
      /\ lastOp' = Op("selectObject", "", picked, getSelectedFacesGroup(picked))
      /\ UNCHANGED <<objects, colorID, faceGroupColorID, lastAlloc, eventVars, vertVars, objVars, meshVars, appVars>>

\* ------------------------------------------------------------ events
\* An eventName argument: a string (s) or an int (n), the other part unused.
StrName(str0) == [s |-> str0, n |-> None]
IntName(int0) == [s |-> "", n |-> int0]

\* Python's ord() on the single-character names used here.
ord(ch) == CASE ch = "a" -> 97 [] OTHER -> 0

\* The last branch of connect and disconnect: a single-character string is
\* replaced by its code; the result is a key code only if it is an int.
KeyCode(e) ==
  IF e.n = None /\ e.s \in Chars THEN ord(e.s)
  ELSE IF e.n # None THEN e.n
  ELSE None

\* The handler slot an (eventName, target) pair of connect or disconnect
\* names: <<target, field name, key code>>, or <<>> if connect stores
\* nothing for it.
Slot(e, obj) ==
  IF obj # None
  THEN IF e.n = None /\ e.s \in ObjKinds THEN <<obj, e.s, None>> ELSE <<>>
  ELSE IF e.n = None /\ e.s \in SceneKinds THEN <<None, e.s, None>>
  ELSE IF KeyCode(e) # None THEN <<None, "", KeyCode(e)>>
  ELSE <<>>

\* The handler held in a slot by the given object table, scene fields and
\* key dictionary.
Registered(h, cb, dict, slot) ==
  IF slot[1] # None THEN h[slot[1]].callBack[slot[2]]
  ELSE IF slot[3] = None THEN cb[slot[2]]
  ELSE IF slot[3] \in DOMAIN dict THEN dict[slot[3]]
  ELSE None

\* Scene3D.connect with obj given: the object's fields afterwards.
connectObj(o, e, f) ==
  IF e.n = None /\ e.s \in ObjKinds \ {"MOTION"}
  THEN IF o.callBack[e.s] # None THEN o ELSE [o EXCEPT !.callBack[e.s] = f]
  ELSE IF e.n = None /\ e.s = "MOTION" THEN [o EXCEPT !.callBack["MOTION"] = f]
  ELSE o

\* A connect on the scene that stores the handler whatever is there.
connectScene_Overwrite(cb, e, f) ==
  IF e.n = None /\ e.s \in SceneKinds THEN [cb EXCEPT ![e.s] = f] ELSE cb

\* Scene3D.connect without obj: the scene's callback fields afterwards.
connectScene(cb, e, f) ==
  IF e.n = None /\ e.s \in SceneKinds
  THEN IF cb[e.s] # None THEN cb ELSE [cb EXCEPT ![e.s] = f]
  ELSE cb

\* Scene3D.connect without obj: keyboardEventsDict afterwards.
connectKey(dict, e, f) ==
  IF (e.n = None /\ e.s \in SceneKinds) \/ KeyCode(e) = None THEN dict
  ELSE DictSet(dict, KeyCode(e), f)

\* Scene3D.connect(eventName, functionToCall, obj); obj = None is the scene.
connect(e, obj) ==
  LET f == nConnect + 1
      slot == Slot(e, obj)
  IN  /\ nConnect < MaxConnects
      /\ nConnect' = f
      /\ heap' = IF obj # None THEN [heap EXCEPT ![obj] = connectObj(@, e, f)]
                 ELSE heap
      /\ sceneCB' = IF obj = None THEN connectScene(sceneCB, e, f) ELSE sceneCB
      /\ keyboardEventsDict' =
           IF obj = None THEN connectKey(keyboardEventsDict, e, f)
           ELSE keyboardEventsDict
      /\ reg' = IF slot = <<>> THEN reg
                ELSE IF slot \in DOMAIN reg
                     THEN [reg EXCEPT ![slot] = Append(@, f)]
                     ELSE DictSet(reg, slot, <<f>>)
      /\ lastOp' = EvOp("connect", e.s, <<>>, obj, e.n)
      /\ UNCHANGED <<objects, colorID, faceGroupColorID, lastAlloc, calls, vertVars, objVars, meshVars, appVars>>

\* A dictionary without the entries of the keys in ks.
DictDel(d, ks) == [x \in DOMAIN d \ ks |-> d[x]]

\* Scene3D.disconnect(eventName, obj).
disconnect(e, obj) ==
  /\ heap' = IF obj # None /\ e.n = None /\ e.s \in ObjKinds
             THEN [heap EXCEPT ![obj].callBack[e.s] = None]
             ELSE heap
  /\ sceneCB' = IF obj = None /\ e.n = None /\ e.s \in SceneDisconnectKinds
                THEN [sceneCB EXCEPT ![e.s] = None]
                ELSE sceneCB
  /\ keyboardEventsDict' =
       IF obj = None /\ ~(e.n = None /\ e.s \in SceneDisconnectKinds)
          /\ KeyCode(e) # None
       THEN DictDel(keyboardEventsDict, {KeyCode(e)})
       ELSE keyboardEventsDict
  /\ reg' = DictDel(reg, {Slot(e, obj)})
  /\ lastOp' = EvOp("disconnect", e.s, <<>>, obj, e.n)
  /\ UNCHANGED <<objects, colorID, faceGroupColorID, lastAlloc, nConnect, calls, vertVars, objVars, meshVars, appVars>>

\* Scene3D.disconnectAllEvents().
disconnectAllEvents ==
  /\ sceneCB' = [k \in SceneKinds |->
                   IF k \in SceneResetKinds THEN None ELSE sceneCB[k]]
  /\ keyboardEventsDict' = <<>>
  /\ reg' = DictDel(reg, {sl \in DOMAIN reg : sl[1] = None})
  /\ lastOp' = EvOp("disconnectAllEvents", "", <<>>, None, None)
  /\ UNCHANGED <<heap, objects, colorID, faceGroupColorID, lastAlloc, nConnect, calls, vertVars, objVars, meshVars, appVars>>

\* One invocation of a handler: by the scene or by an object, and which.
Call(level, ob, f) == [level |-> level, obj |-> ob, fn |-> f]

\* The scene's handler for an event name, called if there is one.
SceneCall(kind) ==
  IF sceneCB[kind] # None THEN <<Call("scene", None, sceneCB[kind])>> ELSE <<>>

\* ob = self.getSelectedObject(); its handler is called if both exist.
ObjectCall(kind) ==
  LET ob == getSelectedObject(heap)
  IN  IF ob # None /\ heap[ob].callBack[kind] # None
      THEN <<Call("object", ob, heap[ob].callBack[kind])>>
      ELSE <<>>

\* A dispatch that serves the object before the scene.
Dispatch_ObjectFirst(kind) == ObjectCall(kind) \o SceneCall(kind)

\* One branch of mouseButtonDown / mouseButtonUp.
Dispatch(kind) == SceneCall(kind) \o ObjectCall(kind)

\* The event name mouseButtonDown serves for a button ("" for none).
DownKind(button) ==
  CASE button = 1 -> "LMOUSEP" [] button = 2 -> "RMOUSEP"
    [] button = 4 -> "MOUSEWHEELUP" [] button = 5 -> "MOUSEWHEELDOWN"
    [] OTHER -> ""

\* The event name mouseButtonUp serves for a button ("" for none).
UpKind(button) ==
  CASE button = 1 -> "LMOUSER" [] button = 2 -> "RMOUSER" [] OTHER -> ""

\* Scene3D.mouseButtonDown(button, x, y), the picking pass showing the colour
\* under at (x, y).
mouseButtonDown(button, under) ==
  /\ calls' = IF DownKind(button) # "" THEN Dispatch(DownKind(button)) ELSE <<>>
  /\ lastOp' = EvOp("mouseButtonDown", DownKind(button), under, None, button)
  /\ UNCHANGED <<heap, objects, colorID, faceGroupColorID, lastAlloc,
                 sceneCB, keyboardEventsDict, nConnect, reg, vertVars, objVars, meshVars, appVars>>

\* Scene3D.mouseButtonUp(button, x, y), the picking pass showing the colour
\* under at (x, y).
mouseButtonUp(button, under) ==
  /\ calls' = IF UpKind(button) # "" THEN Dispatch(UpKind(button)) ELSE <<>>
  /\ lastOp' = EvOp("mouseButtonUp", UpKind(button), under, None, button)
  /\ UNCHANGED <<heap, objects, colorID, faceGroupColorID, lastAlloc,
                 sceneCB, keyboardEventsDict, nConnect, reg, vertVars, objVars, meshVars, appVars>>

\* A mouseMotion that also serves the selected object's MOTION handler.
mouseMotion_ToObject(mouseState) ==
  /\ calls' = IF mouseState # 0 THEN Dispatch("MOTION") ELSE SceneCall("PMOTION")
  /\ lastOp' = EvOp("mouseMotion", IF mouseState # 0 THEN "MOTION" ELSE "PMOTION",
                    <<>>, None, mouseState)
  /\ UNCHANGED <<heap, objects, colorID, faceGroupColorID, lastAlloc,
                 sceneCB, keyboardEventsDict, nConnect, reg, vertVars, objVars, meshVars, appVars>>

\* Scene3D.mouseMotion(mouseState, x, y, xRel, yRel).
mouseMotion(mouseState) ==
  /\ calls' = IF mouseState # 0 THEN SceneCall("MOTION") ELSE SceneCall("PMOTION")
  /\ lastOp' = EvOp("mouseMotion", IF mouseState # 0 THEN "MOTION" ELSE "PMOTION",
                    <<>>, None, mouseState)
  /\ UNCHANGED <<heap, objects, colorID, faceGroupColorID, lastAlloc,
                 sceneCB, keyboardEventsDict, nConnect, reg, vertVars, objVars, meshVars, appVars>>

\* The scene's handler for a named key, called if the key is that one.
KeyCall(kind, code, key) == IF key = code THEN SceneCall(kind) ELSE <<>>

\* Scene3D.keyDown(key, character).
keyDown(key) ==
  /\ calls' =
       SceneCall("KEYBOARD")
       \o (IF key \in DOMAIN keyboardEventsDict
           THEN <<Call("scene", None, keyboardEventsDict[key])>> ELSE <<>>)
       \o KeyCall("UP_ARROW", UP_ARROW, key)
       \o KeyCall("DOWN_ARROW", DOWN_ARROW, key)
       \o KeyCall("LEFT_ARROW", LEFT_ARROW, key)
       \o KeyCall("RIGHT_ARROW", RIGHT_ARROW, key)
       \o KeyCall("LEFT_CTRL", LEFT_CTRL, key)
       \o KeyCall("RIGHT_CTRL", RIGHT_CTRL, key)
       \o KeyCall("LEFT_SHIFT", LEFT_SHIFT, key)
       \o KeyCall("RIGHT_SHIFT", RIGHT_SHIFT, key)
       \o KeyCall("LEFT_ALT", LEFT_ALT, key)
  /\ lastOp' = EvOp("keyDown", "", <<>>, None, key)
  /\ UNCHANGED <<heap, objects, colorID, faceGroupColorID, lastAlloc,
                 sceneCB, keyboardEventsDict, nConnect, reg, vertVars, objVars, meshVars, appVars>>

\* Scene3D.timerFunc().
timerFunc ==
  /\ calls' = SceneCall("TIMER")
  /\ lastOp' = EvOp("timerFunc", "TIMER", <<>>, None, None)
  /\ UNCHANGED <<heap, objects, colorID, faceGroupColorID, lastAlloc,
                 sceneCB, keyboardEventsDict, nConnect, reg, vertVars, objVars, meshVars, appVars>>

\* The event names, colours, buttons and keys the event runs draw from.
SceneEventNames ==
  {StrName(k) : k \in SceneKinds \cup Chars \cup UnknownNames} \cup {IntName(ord("a"))}
ObjEventNames == {StrName(k) : k \in ObjKinds \cup {"PMOTION"}}
Targets == {None} \cup (1..Len(heap))
EventNamesFor(obj) == IF obj = None THEN SceneEventNames ELSE ObjEventNames
UnderColors == {<<1, 0, 0>>, <<2, 0, 0>>, <<255, 255, 255>>}
Buttons == 1..5
Keys ==
  {ord("a"), UP_ARROW, DOWN_ARROW, LEFT_ARROW, RIGHT_ARROW, LEFT_CTRL,
   RIGHT_CTRL, LEFT_SHIFT, RIGHT_SHIFT, LEFT_ALT}

ConnectStep == \E obj \in Targets : \E e \in EventNamesFor(obj) : connect(e, obj)
DisconnectStep == \E obj \in Targets : \E e \in EventNamesFor(obj) : disconnect(e, obj)
DisconnectAllEventsStep == disconnectAllEvents
MouseButtonDownStep ==
  \E button \in Buttons, under \in UnderColors : mouseButtonDown(button, under)
MouseButtonUpStep ==
  \E button \in Buttons, under \in UnderColors : mouseButtonUp(button, under)
MouseMotionStep == \E mouseState \in {0, 1} : mouseMotion(mouseState)
KeyDownStep == \E key \in Keys : keyDown(key)
TimerFuncStep == timerFunc
PickStep == \E picked \in UnderColors : selectObject(picked)

NewObjStep == \E name \in Names : newObj(name)
AddFaceGroupStep == \E u \in DOMAIN heap : AddFaceGroup(u)
DeleteObjStep == \E name \in Names : deleteObj(name)
UpdateStep == \E loadOk \in BOOLEAN : update(loadOk)
SelectObjectStep == \E picked \in PickColors : selectObject(picked)

vars == <<sceneVars, eventVars, vertVars, objVars, meshVars, appVars>>

Init == InitScene

\* Two objects as the loader leaves them, with n1 and n2 face groups: where
\* the allocation of picking colours starts from.
InitAlloc ==
  \E n1 \in AllocSizes, n2 \in 0..MaxAllocGroups2 :
    /\ heap = <<[Object3D("a") EXCEPT !.idx = 0, !.nGroups = n1],
                [Object3D("b") EXCEPT !.idx = 1, !.nGroups = n2]>>
    /\ objects = <<1, 2>>
    /\ colorID = <<0, 0, 0>>
    /\ faceGroupColorID = <<>>
    /\ lastAlloc = <<>>
    /\ lastOp = Op("init", "", <<>>, <<>>)
    /\ sceneCB = [k \in SceneKinds |-> None]
    /\ keyboardEventsDict = <<>>
    /\ nConnect = 0
    /\ reg = <<>>
    /\ calls = <<>>
    /\ NoVerts
    /\ Rendered(2)
    /\ NoActions

Next ==
  \/ NewObjStep
  \/ AddFaceGroupStep
  \/ DeleteObjStep
  \/ UpdateStep
  \/ SelectObjectStep

Spec == Init /\ [][Next]_vars

\* Allocation and picking over large scenes.
NextAlloc ==
  \/ UpdateStep
  \/ SelectObjectStep

SpecAlloc == InitAlloc /\ [][NextAlloc]_vars

\* Two loaded objects after a first update(): where the event runs start.
InitEvents ==
  /\ heap = <<[Object3D("a") EXCEPT !.idx = 0, !.nGroups = 1],
              [Object3D("b") EXCEPT !.idx = 1, !.nGroups = 1]>>
  /\ objects = <<1, 2>>
  /\ colorID = <<2, 0, 0>>
  /\ faceGroupColorID = (IDkey(<<1, 0, 0>>) :> <<1, 1>>) @@ (IDkey(<<2, 0, 0>>) :> <<2, 1>>)
  /\ lastAlloc = (<<1, 1>> :> <<1, 0, 0>>) @@ (<<2, 1>> :> <<2, 0, 0>>)
  /\ lastOp = Op("update", "", <<>>, <<>>)
  /\ sceneCB = [k \in SceneKinds |-> None]
  /\ keyboardEventsDict = <<>>
  /\ nConnect = 0
  /\ reg = <<>>
  /\ calls = <<>>
  /\ NoVerts
  /\ Rendered(2)
  /\ NoActions

\* One loaded object after a first update().
OneObject ==
  /\ heap = <<[Object3D("a") EXCEPT !.idx = 0, !.nGroups = 1]>>
  /\ objects = <<1>>
  /\ colorID = <<1, 0, 0>>
  /\ faceGroupColorID = (IDkey(<<1, 0, 0>>) :> <<1, 1>>)
  /\ lastAlloc = (<<1, 1>> :> <<1, 0, 0>>)
  /\ lastOp = Op("update", "", <<>>, <<>>)
  /\ sceneCB = [k \in SceneKinds |-> None]
  /\ keyboardEventsDict = <<>>
  /\ nConnect = 0
  /\ reg = <<>>
  /\ calls = <<>>
  /\ Rendered(1)
  /\ NoActions

\* Where the registration runs start.
InitConnect == OneObject /\ NoVerts

\* Registration and dispatch of events.
NextEvents ==
  \/ ConnectStep
  \/ DisconnectStep
  \/ DisconnectAllEventsStep
  \/ MouseButtonDownStep
  \/ MouseButtonUpStep
  \/ MouseMotionStep
  \/ KeyDownStep
  \/ TimerFuncStep

SpecEvents == InitConnect /\ [][NextEvents]_vars

\* Connecting the mouse-button and wheel handlers of the scene and of the
\* objects.
MouseNames == {StrName(k) : k \in ObjKinds \ {"MOTION"}}
ConnectMouseStep == \E obj \in Targets : \E e \in MouseNames : connect(e, obj)

\* Picking and mouse dispatch over the two objects.
NextDispatch ==
  \/ ConnectMouseStep
  \/ PickStep
  \/ MouseButtonDownStep
  \/ MouseButtonUpStep

SpecDispatch == InitEvents /\ [][NextDispatch]_vars

\* Connecting the motion and keyboard handlers of the scene and any handler
\* of the objects.
MotionNamesFor(obj) ==
  IF obj = None
  THEN {StrName(k) : k \in {"MOTION", "PMOTION", "KEYBOARD", "UP_ARROW", "a"}}
  ELSE ObjEventNames
ConnectMotionStep == \E obj \in Targets : \E e \in MotionNamesFor(obj) : connect(e, obj)

\* Picking, motion and keyboard events over the two objects.
NextMotion ==
  \/ ConnectMotionStep
  \/ PickStep
  \/ MouseMotionStep
  \/ KeyDownStep

SpecMotion == InitEvents /\ [][NextMotion]_vars

\* ------------------------------------------------------------ claims
\* The positions of scene.objects whose object is flagged isSelected.
SelectedPositions == {i \in 1..Len(objects) : heap[objects[i]].isSelected # None}

\* The FaceGroups reachable from scene.objects.
SceneGroups ==
  UNION {{<<objects[i], k>> : k \in 1..heap[objects[i]].nGroups} : i \in 1..Len(objects)}

\* C1: after any sequence of newObj, deleteObj, update and selectObject (hit or
\* miss), at most one object of scene.objects has isSelected set.
C1_SingleSelection == Cardinality(SelectedPositions) <= 1

\* C1's case: a pick has just selected one object of the scene while another
\* object of the scene, selected by an earlier pick, was the selected one.
C1_Witness ==
  /\ lastOp.op = "selectObject"
  /\ lastOp.res # NoGroup
  /\ \E i, j \in 1..Len(objects) :
       /\ i # j
       /\ objects[i] = parent(lastOp.res)
       /\ heap[objects[i]].isSelected # None
       /\ heap[objects[j]].faceGroupSelected # NoGroup
       /\ heap[objects[j]].isSelected = None

\* The positions (1-based) of scene.objects whose object has this name.
NamedPositions(name) == {i \in 1..Len(objects) : heap[objects[i]].name = name}

\* C2: deleteObj(name), for a name matching at least one object at any list
\* position, leaves the list without its first match, the others in their
\* order, with ids 0..N-2.
C2_DeleteRenumbers ==
  [][(lastOp'.op = "deleteObj" /\ NamedPositions(lastOp'.name) # {}) =>
       LET first == CHOOSE i \in NamedPositions(lastOp'.name) :
                      \A j \in NamedPositions(lastOp'.name) : i <= j
       IN  /\ Len(objects') = Len(objects) - 1
           /\ objects' = DelAt(objects, first - 1)
           /\ \A i \in 1..Len(objects') : heap'[objects'[i]].idx = i - 1]_vars

\* C3: after one update(), any two distinct FaceGroups reachable from
\* scene.objects, in the same or in different objects, were given different
\* colour ids.
C3_AllocationInjective ==
  lastOp.op = "update" =>
    /\ SceneGroups \subseteq DOMAIN lastAlloc
    /\ \A g1, g2 \in SceneGroups : g1 # g2 => lastAlloc[g1] # lastAlloc[g2]

\* C3's case: an update() has allocated past the low byte's wrap, over groups
\* of two objects.
C3_Witness ==
  /\ lastOp.op = "update"
  /\ colorID[2] > 0
  /\ \E g1, g2 \in SceneGroups : parent(g1) # parent(g2)

\* C4: a FaceGroup returned for a sampled colour c was given exactly the
\* triple c by the most recent update().
C4_PickExact ==
  (lastOp.op = "selectObject" /\ lastOp.res # NoGroup) =>
    /\ lastOp.res \in DOMAIN lastAlloc
    /\ lastAlloc[lastOp.res] = lastOp.pick

\* C5: after every update(), every entry of the colour table maps a colour
\* allocated in that update to a FaceGroup of an object of scene.objects.
C5_TableRebuilt ==
  lastOp.op = "update" =>
    \A k \in DOMAIN faceGroupColorID :
      /\ faceGroupColorID[k] \in SceneGroups
      /\ faceGroupColorID[k] \in DOMAIN lastAlloc
      /\ IDkey(lastAlloc[faceGroupColorID[k]]) = k

\* ------------------------------------------------------------ counter runs
\* The number of loop passes followed and the channel values the counter is
\* picked up at.
MaxPasses == 2
CounterSamples == {0, 1, 253, 254}

\* The record of one pass of assignSelectionID's loop, the n-th followed.
PassOp(n) ==
  [op |-> "assignSelectionID", name |-> "", pick |-> <<>>, res |-> NoGroup,
   obj |-> None, key |-> None, n |-> n]

\* The counter in the middle of an update() over many face groups: each
\* channel of colorID at one of the sampled values (the counter takes the
\* value (r, g, b) after r + 255 g + 65025 b passes).
InitCounter ==
  /\ heap = <<>>
  /\ objects = <<>>
  /\ colorID \in CounterSamples \X CounterSamples \X CounterSamples
  /\ faceGroupColorID = <<>>
  /\ lastAlloc = <<>>
  /\ lastOp = PassOp(0)
  /\ sceneCB = [k \in SceneKinds |-> None]
  /\ keyboardEventsDict = <<>>
  /\ nConnect = 0
  /\ reg = <<>>
  /\ calls = <<>>
  /\ NoVerts
  /\ Rendered(0)
  /\ NoActions

\* One more pass of assignSelectionID's loop: the increment that gives the
\* next face group its id.
AssignPass ==
  /\ lastOp.n < MaxPasses
  /\ colorID' = NextColorID(colorID)
  /\ lastOp' = PassOp(lastOp.n + 1)
  /\ UNCHANGED <<heap, objects, faceGroupColorID, lastAlloc, eventVars, vertVars, objVars, meshVars, appVars>>

NextCounter == AssignPass

SpecCounter == InitCounter /\ [][NextCounter]_vars

\* ------------------------------------------------------------ vertex runs
\* The slot lists the loader may have given the two vertices of the object.
SlotLayouts == {<<<<0, 1>>, <<>>>>, <<<<1>>, <<0>>>>}
IndexLists == {<<>>, <<0>>, <<1>>, <<0, 1>>}

\* An object of two vertices with its buffers as a first Scene3D.update left
\* them.
InitVert ==
  /\ OneObject
  /\ \E layout \in SlotLayouts :
       verts = [k \in 1..MaxVerts |->
                  [Vert(0, 0) EXCEPT !.indicesInFullVertArray =
                     IF k <= Len(layout) THEN layout[k] ELSE <<>>]]
  /\ backend = [x \in {0} \X SlotIds |-> [coord |-> 0, norm |-> 0, color |-> White]]
  /\ lastUpd = [op |-> "init"]

\* A caller assigns v.co, v.no or v.color.
SetCo(k, value) ==
  /\ verts' = [verts EXCEPT ![k].co = value]
  /\ lastUpd' = [op |-> "set"]
  /\ UNCHANGED <<backend, sceneVars, eventVars, objVars, meshVars, appVars>>

SetNo(k, value) ==
  /\ verts' = [verts EXCEPT ![k].no = value]
  /\ lastUpd' = [op |-> "set"]
  /\ UNCHANGED <<backend, sceneVars, eventVars, objVars, meshVars, appVars>>

SetColor(k, value) ==
  /\ verts' = [verts EXCEPT ![k].color = value]
  /\ lastUpd' = [op |-> "set"]
  /\ UNCHANGED <<backend, sceneVars, eventVars, objVars, meshVars, appVars>>

\* Whether a call of Vert.update passes the default arguments.
IsDefault(updateNor, updateCoo, updateCol, colorIndexToUpdate) ==
  updateNor = 1 /\ updateCoo = 1 /\ updateCol = None /\ colorIndexToUpdate = None

\* verts[k - 1].update(updateNor, updateCoo, updateCol, colorIndexToUpdate).
VertUpdate(k, updateNor, updateCoo, updateCol, colorIndexToUpdate) ==
  /\ backend' = Vert_update(backend, verts[k], updateNor, updateCoo, updateCol,
                            colorIndexToUpdate)
  /\ lastUpd' = [op |-> "Vert.update", vs |-> {k},
                 dflt |-> IsDefault(updateNor, updateCoo, updateCol, colorIndexToUpdate),
                 nor |-> updateNor, coo |-> updateCoo, col |-> updateCol,
                 cidx |-> colorIndexToUpdate]
  /\ UNCHANGED <<verts, sceneVars, eventVars, objVars, meshVars, appVars>>

\* obj.update(indexToUpdate).
ObjectUpdate(indexToUpdate) ==
  /\ backend' = Object3D_update(backend, indexToUpdate, 1)
  /\ lastUpd' = [op |-> "Object3D.update",
                 vs |-> {indexToUpdate[j] + 1 : j \in 1..Len(indexToUpdate)},
                 dflt |-> TRUE]
  /\ UNCHANGED <<verts, sceneVars, eventVars, objVars, meshVars, appVars>>

SetCoStep == \E k \in 1..MaxVerts, value \in VertVals : SetCo(k, value)
SetNoStep == \E k \in 1..MaxVerts, value \in VertVals : SetNo(k, value)
SetColorStep == \E k \in 1..MaxVerts, value \in VertColors : SetColor(k, value)
VertUpdateStep ==
  \E k \in 1..MaxVerts, updateNor \in Flags, updateCoo \in Flags, updateCol \in Flags,
     colorIndexToUpdate \in {None} \cup SlotIds :
    VertUpdate(k, updateNor, updateCoo, updateCol, colorIndexToUpdate)
ObjectUpdateStep == \E indexToUpdate \in IndexLists : ObjectUpdate(indexToUpdate)

NextVert ==
  \/ SetCoStep
  \/ SetNoStep
  \/ SetColorStep
  \/ VertUpdateStep
  \/ ObjectUpdateStep

SpecVert == InitVert /\ [][NextVert]_vars

\* ------------------------------------------------------------ stale slots
\* The renderer calls of Vert.update, in the order it makes them: the
\* coordinate to every listed slot, then the normal, then the colour to
\* every listed slot or to colorIndexToUpdate.
slotCalls(v, value, field) ==
  [j \in 1..Len(v.indicesInFullVertArray) |->
     [field |-> field, i |-> v.indicesInFullVertArray[j], value |-> value]]
Vert_update_calls(v, updateNor, updateCoo, updateCol, colorIndexToUpdate) ==
  (IF IsTrue(updateCoo) THEN slotCalls(v, v.co, "coord") ELSE <<>>)
  \o (IF IsTrue(updateNor) THEN slotCalls(v, v.no, "norm") ELSE <<>>)
  \o (IF IsTrue(updateCol)
      THEN IF colorIndexToUpdate = None
           THEN slotCalls(v, v.color, "color")
           ELSE <<[field |-> "color", i |-> colorIndexToUpdate, value |-> v.color]>>
      ELSE <<>>)

\* The calls from the k-th on against the buffers b. For a slot the renderer
\* does not hold, the renderer either raises IndexError, as its calls that
\* name an object do, or ignores the store; Vert.update has no handler, so
\* the exception ends it.
RECURSIVE mhRun(_, _, _, _, _)
mhRun(b, objID, cs, k, raises) ==
  IF k > Len(cs) THEN [buf |-> b, raised |-> "", done |-> k - 1]
  ELSE IF <<objID, cs[k].i>> \notin DOMAIN b
       THEN IF raises THEN [buf |-> b, raised |-> "IndexError", done |-> k - 1]
            ELSE mhRun(b, objID, cs, k + 1, raises)
       ELSE mhRun(CASE cs[k].field = "coord" -> setVertCoord(b, objID, cs[k].i, cs[k].value)
                    [] cs[k].field = "norm" -> setNormCoord(b, objID, cs[k].i, cs[k].value)
                    [] OTHER -> setColorCoord2(b, objID, cs[k].i, cs[k].value),
                  objID, cs, k + 1, raises)

\* The slot lists of two vertices after the renderer was set up anew with
\* fewer slots: the index MaxSlots is no longer one of its slots.
StaleLayouts == {<<<<0, MaxSlots>>, <<>>>>, <<<<MaxSlots, 1>>, <<0>>>>}

InitStale ==
  /\ OneObject
  /\ \E layout \in StaleLayouts :
       verts = [k \in 1..MaxVerts |->
                  [Vert(0, 0) EXCEPT !.indicesInFullVertArray =
                     IF k <= Len(layout) THEN layout[k] ELSE <<>>]]
  /\ backend = [x \in {0} \X SlotIds |-> [coord |-> 0, norm |-> 0, color |-> White]]
  /\ lastUpd = [op |-> "init"]

\* verts[k - 1].update(updateNor, updateCoo, updateCol, colorIndexToUpdate)
\* with its exception, if any.
StaleUpdate(k, updateNor, updateCoo, updateCol, colorIndexToUpdate, raises) ==
  LET r == mhRun(backend, verts[k].objID,
                 Vert_update_calls(verts[k], updateNor, updateCoo, updateCol,
                                   colorIndexToUpdate),
                 1, raises)
  IN  /\ backend' = r.buf
      /\ lastUpd' = [op |-> "Vert.update", vs |-> {k},
                     dflt |-> IsDefault(updateNor, updateCoo, updateCol, colorIndexToUpdate),
                     nor |-> updateNor, coo |-> updateCoo, col |-> updateCol,
                     cidx |-> colorIndexToUpdate, raised |-> r.raised]
      /\ UNCHANGED <<verts, sceneVars, eventVars, objVars, meshVars, appVars>>

StaleUpdateStep ==
  \E k \in 1..MaxVerts, updateNor \in Flags, updateCoo \in Flags, updateCol \in Flags,
     colorIndexToUpdate \in {None, MaxSlots}, raises \in BOOLEAN :
    StaleUpdate(k, updateNor, updateCoo, updateCol, colorIndexToUpdate, raises)

NextStale ==
  \/ SetCoStep
  \/ SetColorStep
  \/ StaleUpdateStep

SpecStale == InitStale /\ [][NextStale]_vars

\* ------------------------------------------------------------ face runs
\* The slot lists of the four vertices of the object: the first three are
\* the corners of its face.
FaceLayout == <<<<0, 1>>, <<2>>, <<>>, <<3>>>>
CornerColors == [1..3 -> VertColors]

\* for index in v.indicesInFullVertArray: v.update(0, 0, 1), from the k-th
\* index on.
RECURSIVE updatePerIndex(_, _, _)
updatePerIndex(b, v, k) ==
  IF k > Len(v.indicesInFullVertArray) THEN b
  ELSE updatePerIndex(Vert_update(b, v, 0, 0, 1, None), v, k + 1)

\* A corner pass that calls v.update() with its defaults.
updateCorner_Defaults(st, f, i) ==
  LET k == f.verts[i] + 1
      v == [st.verts[k] EXCEPT !.color = f.color[i]]
  IN  [verts |-> [st.verts EXCEPT ![k] = v],
       buf |-> Vert_update(st.buf, v, 1, 1, None, None)]

\* The body of updateColors' loop for corner i (1-based), from the state
\* st = [verts, buf].
updateCorner(st, f, i) ==
  LET k == f.verts[i] + 1
      v == [st.verts[k] EXCEPT !.color = f.color[i]]
  IN  [verts |-> [st.verts EXCEPT ![k] = v],
       buf |-> updatePerIndex(st.buf, v, 1)]

\* Face.updateColors() on the face f; indexing the None of f.color raises
\* TypeError.
Face_updateColors(f) ==
  IF f.color = <<>>
  THEN [verts |-> verts, buf |-> backend, raised |-> "TypeError"]
  ELSE LET st == updateCorner(updateCorner(updateCorner(
                   [verts |-> verts, buf |-> backend], f, 1), f, 2), f, 3)
       IN  [verts |-> st.verts, buf |-> st.buf, raised |-> ""]

\* An object of four vertices and one face, with buffers as a first update
\* left them.
InitFace ==
  /\ heap = <<[Object3D("a") EXCEPT !.idx = 0, !.nGroups = 1]>>
  /\ objects = <<1>>
  /\ colorID = <<1, 0, 0>>
  /\ faceGroupColorID = (IDkey(<<1, 0, 0>>) :> <<1, 1>>)
  /\ lastAlloc = (<<1, 1>> :> <<1, 0, 0>>)
  /\ lastOp = Op("update", "", <<>>, <<>>)
  /\ sceneCB = [k \in SceneKinds |-> None]
  /\ keyboardEventsDict = <<>>
  /\ nConnect = 0
  /\ reg = <<>>
  /\ calls = <<>>
  /\ mhObjs = init3DScene(1)
  /\ textureCache = <<>>
  /\ files = <<>>
  /\ lastSet = [op |-> "init"]
  /\ mesh = (<<1, 1>> :> <<Face(<<0, 1, 2>>, <<>>)>>)
  /\ sent = <<sendObject(1, (<<1, 1>> :> <<1, 0, 0>>))>>
  /\ NoActions
  /\ verts = [k \in 1..Len(FaceLayout) |->
                [Vert(0, 0) EXCEPT !.indicesInFullVertArray = FaceLayout[k]]]
  /\ backend = [x \in {0} \X (0..3) |-> [coord |-> 0, norm |-> 0, color |-> White]]
  /\ lastUpd = [op |-> "init"]

\* A caller assigns f.color on the face of the object.
SetFaceColor(c) ==
  /\ mesh' = [mesh EXCEPT ![<<1, 1>>][1].color = c]
  /\ lastUpd' = [op |-> "set"]
  /\ UNCHANGED <<verts, backend, sent, sceneVars, eventVars, objVars, appVars>>

\* f.updateColors() on the face of the object.
UpdateColors ==
  LET r == Face_updateColors(mesh[<<1, 1>>][1])
  IN  /\ verts' = r.verts
      /\ backend' = r.buf
      /\ lastUpd' = [op |-> "updateColors", raised |-> r.raised]
      /\ UNCHANGED <<sceneVars, eventVars, objVars, meshVars, appVars>>

SetFaceColorStep == \E c \in CornerColors : SetFaceColor(c)

NextFace ==
  \/ SetCoStep
  \/ SetNoStep
  \/ SetFaceColorStep
  \/ UpdateColors

SpecFace == InitFace /\ [][NextFace]_vars

\* ------------------------------------------------------------ transform runs
\* The outcome of a renderer call that names an object id: the renderer
\* raises IndexError for an id it does not hold.
mhObjCall(idx) == IF idx # None /\ 0 <= idx /\ idx < mhObjs THEN "" ELSE "IndexError"

\* The record of an Object3D method call: the exception that reached the
\* caller ("" if it returned), what it loaded and bound, and whether the
\* loader succeeded.
Set(o, u, value, exc) ==
  [op |-> o, obj |-> u, val |-> value, raised |-> exc, loaded |-> 0, bound |-> None,
   ok |-> TRUE]

\* Object3D.setLoc(locx, locy, locz): IndexError is caught and printed.
setLoc(u, value) ==
  /\ heap' = [heap EXCEPT ![u].loc = value]
  /\ lastSet' = Set("setLoc", u, value, "")
  /\ UNCHANGED <<objects, colorID, faceGroupColorID, lastAlloc, lastOp, eventVars,
                 vertVars, mhObjs, textureCache, files, meshVars, appVars>>

\* Object3D.setRot(rx, ry, rz).
setRot(u, value) ==
  /\ heap' = [heap EXCEPT ![u].rot = value]
  /\ lastSet' = Set("setRot", u, value, mhObjCall(heap[u].idx))
  /\ UNCHANGED <<objects, colorID, faceGroupColorID, lastAlloc, lastOp, eventVars,
                 vertVars, mhObjs, textureCache, files, meshVars, appVars>>

\* Object3D.setScale(sx, sy, sz).
setScale(u, value) ==
  /\ heap' = [heap EXCEPT ![u].scale = value]
  /\ lastSet' = Set("setScale", u, value, mhObjCall(heap[u].idx))
  /\ UNCHANGED <<objects, colorID, faceGroupColorID, lastAlloc, lastOp, eventVars,
                 vertVars, mhObjs, textureCache, files, meshVars, appVars>>

TransformVals == 0..MaxVal
SetLocStep == \E u \in 1..Len(heap), value \in TransformVals : setLoc(u, value)
SetRotStep == \E u \in 1..Len(heap), value \in TransformVals : setRot(u, value)
SetScaleStep == \E u \in 1..Len(heap), value \in TransformVals : setScale(u, value)

\* Objects "a" and "b" without face groups, of which the first n were in the
\* scene at the last update().
InitTransform ==
  /\ heap = <<[Object3D("a") EXCEPT !.idx = 0], [Object3D("b") EXCEPT !.idx = 1]>>
  /\ objects = <<1, 2>>
  /\ colorID = <<0, 0, 0>>
  /\ faceGroupColorID = <<>>
  /\ lastAlloc = <<>>
  /\ lastOp = Op("newObj", "b", <<>>, <<>>)
  /\ sceneCB = [k \in SceneKinds |-> None]
  /\ keyboardEventsDict = <<>>
  /\ nConnect = 0
  /\ reg = <<>>
  /\ calls = <<>>
  /\ NoVerts
  /\ \E n \in 0..1 : Rendered(n)
  /\ NoActions

NextTransform ==
  \/ SetLocStep
  \/ SetRotStep
  \/ SetScaleStep

SpecTransform == InitTransform /\ [][NextTransform]_vars

\* ------------------------------------------------------------ texture runs
\* Object3D.setTexture(path).
setTexture(u, path, loadOk) ==
  LET r == setTextureCalls(textureCache, path, files[path], heap[u].idx, loadOk)
  IN  /\ heap' = [heap EXCEPT ![u].texture = path]
      /\ textureCache' = r.cache
      /\ lastSet' = [Set("setTexture", u, path, "") EXCEPT
                       !.loaded = r.loaded, !.bound = r.bound, !.ok = loadOk]
      /\ UNCHANGED <<objects, colorID, faceGroupColorID, lastAlloc, lastOp, eventVars,
                     vertVars, mhObjs, files, meshVars, appVars>>

\* The file at path is rewritten on disk.
touch(path) ==
  /\ files[path] < MaxMtime
  /\ files' = [files EXCEPT ![path] = @ + 1]
  /\ lastSet' = Set("touch", None, path, "")
  /\ UNCHANGED <<sceneVars, eventVars, vertVars, mhObjs, textureCache, meshVars, appVars>>

SetTextureStep ==
  \E u \in 1..Len(heap), path \in Paths, loadOk \in BOOLEAN : setTexture(u, path, loadOk)
TouchStep == \E path \in Paths : touch(path)

\* The two objects of the transform runs and the texture files, none loaded.
InitTexture ==
  /\ heap = <<[Object3D("a") EXCEPT !.idx = 0], [Object3D("b") EXCEPT !.idx = 1]>>
  /\ objects = <<1, 2>>
  /\ colorID = <<0, 0, 0>>
  /\ faceGroupColorID = <<>>
  /\ lastAlloc = <<>>
  /\ lastOp = Op("newObj", "b", <<>>, <<>>)
  /\ sceneCB = [k \in SceneKinds |-> None]
  /\ keyboardEventsDict = <<>>
  /\ nConnect = 0
  /\ reg = <<>>
  /\ calls = <<>>
  /\ NoVerts
  /\ mhObjs = init3DScene(1)
  /\ textureCache = <<>>
  /\ files = [path \in Paths |-> 1]
  /\ lastSet = [op |-> "init"]
  /\ mesh = <<>>
  /\ sent = <<<<>>>>
  /\ NoActions

NextTexture ==
  \/ SetTextureStep
  \/ TouchStep

SpecTexture == InitTexture /\ [][NextTexture]_vars

\* ------------------------------------------------------------ instance runs
\* The record of an instanceObj call: the source object, the exception that
\* reached the caller ("" if it returned) and the object it returned.
InstOp(name, u, exc, r) ==
  [op |-> "instanceObj", name |-> name, pick |-> <<>>, res |-> NoGroup,
   obj |-> u, key |-> None, raised |-> exc, ret |-> r]

\* The object instanceObj builds from the object o with uid u before it
\* reads o.colors: position, rotation, the verts and faces lists, one new
\* FaceGroup per group of o with o's face list, and the texture. The scale
\* is not copied.
Instance(o, u, name) ==
  [Object3D(name) EXCEPT
     !.idx = Len(objects),
     !.loc = o.loc, !.rot = o.rot,
     !.verts = ListOf(u, o.verts), !.faces = ListOf(u, o.faces),
     !.nGroups = o.nGroups,
     !.fgPrefix = <<name>> \o o.fgPrefix,
     !.fgFaces = ListOf(u, o.fgFaces),
     !.texture = o.texture]

\* An instanceObj that numbers the new object after the source.
instanceObjResult_SourceIdx(u, name) ==
  IF heap[u].colors = Missing
  THEN [raised |-> "AttributeError", new |-> <<>>]
  ELSE [raised |-> "",
        new |-> <<[Instance(heap[u], u, name) EXCEPT
                     !.idx = heap[u].idx + 1, !.colors = heap[u].colors]>>]

\* What instanceObj(obj, name) does for the object with uid u: reading
\* obj.colors raises AttributeError when the attribute was never assigned,
\* before the append; otherwise the new object is appended.
instanceObjResult(u, name) ==
  IF heap[u].colors = Missing
  THEN [raised |-> "AttributeError", new |-> <<>>]
  ELSE [raised |-> "",
        new |-> <<[Instance(heap[u], u, name) EXCEPT !.colors = heap[u].colors]>>]

\* Scene3D.instanceObj(obj, name).
instanceObj(u, name) ==
  LET r == instanceObjResult(u, name)
  IN  /\ r.new # <<>> => Len(heap) < MaxObjs
      /\ heap' = heap \o r.new
      /\ objects' = IF r.new = <<>> THEN objects ELSE Append(objects, Len(heap) + 1)
      /\ lastOp' = InstOp(name, u, r.raised, IF r.new = <<>> THEN None ELSE Len(heap) + 1)
      /\ UNCHANGED <<colorID, faceGroupColorID, lastAlloc, eventVars, vertVars, objVars, meshVars, appVars>>

\* A caller's obj.colors = [...] on an object it holds.
setColors(u) ==
  /\ heap[u].colors = Missing
  /\ heap' = [heap EXCEPT ![u].colors = 0]
  /\ UNCHANGED <<objects, colorID, faceGroupColorID, lastAlloc, lastOp, eventVars,
                 vertVars, objVars, meshVars, appVars>>

InstanceObjStep == \E u \in 1..Len(heap), name \in Names : instanceObj(u, name)
SetColorsStep == \E u \in 1..Len(heap) : setColors(u)

NextInstance ==
  \/ NewObjStep
  \/ AddFaceGroupStep
  \/ InstanceObjStep
  \/ DeleteObjStep
  \/ SetColorsStep

SpecInstance == InitScene /\ [][NextInstance]_vars

\* ------------------------------------------------------------ rebuild runs
\* The uv of a face: none, or an index per corner.
UVs == {<<>>} \cup [1..3 -> 0..MaxUV]

\* Two triangles that share the edge of vertices 1 and 2, in one face group
\* or in one face group each.
TwoTriangles(uv1, uv2, nGroups) ==
  IF nGroups = 1
  THEN (<<1, 1>> :> <<Face(<<0, 1, 2>>, uv1), Face(<<2, 1, 3>>, uv2)>>)
  ELSE (<<1, 1>> :> <<Face(<<0, 1, 2>>, uv1)>>) @@ (<<1, 2>> :> <<Face(<<2, 1, 3>>, uv2)>>)

\* A loaded object of two triangles before the first update().
InitRebuild ==
  \E uv1 \in UVs, uv2 \in UVs, nGroups \in 1..2 :
    /\ heap = <<[Object3D("a") EXCEPT !.idx = 0, !.nGroups = nGroups]>>
    /\ objects = <<1>>
    /\ colorID = <<0, 0, 0>>
    /\ faceGroupColorID = <<>>
    /\ lastAlloc = <<>>
    /\ lastOp = Op("addFaceGroup", "", <<>>, <<>>)
    /\ sceneCB = [k \in SceneKinds |-> None]
    /\ keyboardEventsDict = <<>>
    /\ nConnect = 0
    /\ reg = <<>>
    /\ calls = <<>>
    /\ NoVerts
    /\ mhObjs = init3DScene(0)
    /\ textureCache = <<>>
    /\ files = <<>>
    /\ lastSet = [op |-> "init"]
    /\ mesh = TwoTriangles(uv1, uv2, nGroups)
    /\ sent = <<>>
    /\ NoActions

NextRebuild == UpdateStep

SpecRebuild == InitRebuild /\ [][NextRebuild]_vars

\* ------------------------------------------------------------ normal runs
\* The None of a list argument.
NoList == <<None>>

\* aljabr.planeNorm and aljabr.vnorm, as codes of their arguments (a
\* coordinate is one of 0..MaxVal).
planeNorm(vt1, vt2, vt3) ==
  1 + vt1 + (MaxVal + 1) * vt2 + (MaxVal + 1) * (MaxVal + 1) * vt3
vnorm(no) == 2 * no + 1

\* Face.calcNormal() on the face f of an object with the vertices vs.
Face_calcNormal(vs, f) ==
  [f EXCEPT !.no = planeNorm(vs[f.verts[1] + 1].co, vs[f.verts[2] + 1].co,
                             vs[f.verts[3] + 1].co)]

\* v.sharedFaces for the vertex with index i: the faces of fs it is a corner
\* of, by position.
sharedFaces(fs, i) == {j \in 1..Len(fs) : \E c \in 1..3 : fs[j].verts[c] = i}

\* The sum of f.no over the faces at the positions js.
RECURSIVE sumNo(_, _)
sumNo(fs, js) ==
  IF js = {} THEN 0
  ELSE LET j == CHOOSE x \in js : TRUE IN fs[j].no + sumNo(fs, js \ {j})

\* Vert.calcNorm() on the vertex with index i.
Vert_calcNorm(fs, v, i) == [v EXCEPT !.no = vnorm(sumNo(fs, sharedFaces(fs, i)))]

\* for i in facesToRecalcNorm: self.faces[i].calcNormal(), from the k-th on.
RECURSIVE recalcFaces(_, _, _, _)
recalcFaces(vs, fs, list, k) ==
  IF k > Len(list) THEN fs
  ELSE recalcFaces(vs, [fs EXCEPT ![list[k] + 1] = Face_calcNormal(vs, @)], list, k + 1)

\* for i in indexToUpdate: self.verts[i].calcNorm(), from the k-th on.
RECURSIVE recalcVerts(_, _, _, _)
recalcVerts(vs, fs, list, k) ==
  IF k > Len(list) THEN vs
  ELSE recalcVerts([vs EXCEPT ![list[k] + 1] = Vert_calcNorm(fs, @, list[k])],
                   fs, list, k + 1)

\* range(len(self.verts)).
range(n) == [j \in 1..n |-> j - 1]

\* A calcNormals that averages the vertex normals before it recomputes the
\* face normals.
calcNormals_VertsFirst(vs, fs, indexToUpdate, facesToRecalcNorm, recalcNorms) ==
  LET idx == IF indexToUpdate = NoList THEN range(Len(vs)) ELSE indexToUpdate
  IN  [verts |-> IF IsTrue(recalcNorms) THEN recalcVerts(vs, fs, idx, 1) ELSE vs,
       faces |-> IF facesToRecalcNorm # NoList /\ facesToRecalcNorm # <<>>
                 THEN recalcFaces(vs, fs, facesToRecalcNorm, 1) ELSE fs]

\* Object3D.calcNormals(indexToUpdate, facesToRecalcNorm, recalcNorms) on an
\* object with the vertices vs and the faces fs.
calcNormals(vs, fs, indexToUpdate, facesToRecalcNorm, recalcNorms) ==
  LET idx == IF indexToUpdate = NoList THEN range(Len(vs)) ELSE indexToUpdate
      fs1 == IF facesToRecalcNorm # NoList /\ facesToRecalcNorm # <<>>
             THEN recalcFaces(vs, fs, facesToRecalcNorm, 1) ELSE fs
  IN  [verts |-> IF IsTrue(recalcNorms) THEN recalcVerts(vs, fs1, idx, 1) ELSE vs,
       faces |-> fs1]

\* An object of four vertices and two faces sharing an edge, in one face
\* group, as the loader leaves it; obj.faces is the face list of the group.
InitNormals ==
  /\ heap = <<[Object3D("a") EXCEPT !.idx = 0, !.nGroups = 1]>>
  /\ objects = <<1>>
  /\ colorID = <<0, 0, 0>>
  /\ faceGroupColorID = <<>>
  /\ lastAlloc = <<>>
  /\ lastOp = Op("addFaceGroup", "", <<>>, <<>>)
  /\ sceneCB = [k \in SceneKinds |-> None]
  /\ keyboardEventsDict = <<>>
  /\ nConnect = 0
  /\ reg = <<>>
  /\ calls = <<>>
  /\ mhObjs = init3DScene(0)
  /\ textureCache = <<>>
  /\ files = <<>>
  /\ lastSet = [op |-> "init"]
  /\ mesh = TwoTriangles(<<>>, <<>>, 1)
  /\ sent = <<>>
  /\ NoActions
  /\ verts = [k \in 1..4 |-> Vert(0, 0)]
  /\ backend = <<>>
  /\ lastUpd = [op |-> "init"]

VertLists == {NoList, <<>>, <<0>>, <<1, 3>>}
FaceLists == {NoList, <<>>, <<0>>, <<1>>, <<0, 1>>}

\* obj.calcNormals(indexToUpdate, facesToRecalcNorm, recalcNorms).
CalcNormals(indexToUpdate, facesToRecalcNorm, recalcNorms) ==
  LET r == calcNormals(verts, mesh[<<1, 1>>], indexToUpdate, facesToRecalcNorm,
                       recalcNorms)
  IN  /\ verts' = r.verts
      /\ mesh' = [mesh EXCEPT ![<<1, 1>>] = r.faces]
      /\ lastUpd' = [op |-> "calcNormals", idx |-> indexToUpdate,
                     fs |-> facesToRecalcNorm, rn |-> recalcNorms]
      /\ UNCHANGED <<backend, sent, sceneVars, eventVars, objVars, appVars>>

CalcNormalsStep ==
  \E indexToUpdate \in VertLists, facesToRecalcNorm \in FaceLists,
     recalcNorms \in {None, 0, 1} :
    CalcNormals(indexToUpdate, facesToRecalcNorm, recalcNorms)

\* A caller moves the vertex with index 1, a corner of both faces.
MoveSharedStep == \E value \in VertVals : SetCo(2, value)

NextNormals ==
  \/ MoveSharedStep
  \/ CalcNormalsStep

SpecNormals == InitNormals /\ [][NextNormals]_vars

\* ------------------------------------------------------- repeated rebuilds
\* The number of update() calls in a row that a run tells apart.
MaxRepeats == 2

\* An update() that is the n-th in a row.
UpdateOp(n) == [op |-> "update", n |-> n]

\* Scene3D.update(), counting the calls made in a row.
UpdateAgainStep ==
  \E loadOk \in BOOLEAN :
    updateAs(loadOk,
             UpdateOp(IF lastOp.op # "update" THEN 1
                      ELSE IF lastOp.n < MaxRepeats THEN lastOp.n + 1
                      ELSE MaxRepeats))

NextRepeat ==
  \/ NewObjStep
  \/ AddFaceGroupStep
  \/ DeleteObjStep
  \/ UpdateAgainStep

SpecRepeat == InitAlloc /\ [][NextRepeat]_vars

\* ------------------------------------------------------------ picking runs
\* The number of face groups of a large second object.
BigGroups == 2540
\* The face group counts <<n1, n2>> of the two objects of a scene.
SceneSizes ==
  {<<1, 1>>, <<2, 1>>, <<11, 1>>, <<1, 3>>, <<2, 3>>, <<11, 3>>, <<11, BigGroups>>}

\* Two loaded objects before an update(): a with n1 face groups and b with
\* n2, the last group of each holding a face; or b made by instanceObj from
\* a, sharing a's face lists.
InitPick ==
  \E n1 \in {1, 2, 11}, n2 \in {1, 3, BigGroups}, uv \in UVs, shared \in BOOLEAN :
    /\ <<n1, n2>> \in SceneSizes
    /\ shared => n2 = 1
    /\ heap = <<[Object3D("a") EXCEPT !.idx = 0, !.nGroups = n1, !.colors = 0],
                IF shared
                THEN [Object3D("b") EXCEPT !.idx = 1, !.nGroups = n1, !.colors = 0,
                                           !.verts = 1, !.faces = 1, !.fgFaces = 1,
                                           !.fgPrefix = <<"b">>]
                ELSE [Object3D("b") EXCEPT !.idx = 1, !.nGroups = n2]>>
    /\ objects = <<1, 2>>
    /\ colorID = <<0, 0, 0>>
    /\ faceGroupColorID = <<>>
    /\ lastAlloc = <<>>
    /\ lastOp = Op("init", "", <<>>, <<>>)
    /\ sceneCB = [k \in SceneKinds |-> None]
    /\ keyboardEventsDict = <<>>
    /\ nConnect = 0
    /\ reg = <<>>
    /\ calls = <<>>
    /\ NoVerts
    /\ mhObjs = init3DScene(0)
    /\ textureCache = <<>>
    /\ files = <<>>
    /\ lastSet = [op |-> "init"]
    /\ mesh = IF shared THEN (<<1, n1>> :> <<Face(<<0, 1, 2>>, uv)>>)
              ELSE (<<1, n1>> :> <<Face(<<0, 1, 2>>, uv)>>)
                   @@ (<<2, n2>> :> <<Face(<<0, 1, 2>>, uv)>>)
    /\ sent = <<>>
    /\ NoActions

NextPick == UpdateStep

SpecPick == InitPick /\ [][NextPick]_vars

\* ------------------------------------------------------------- undo, redo
\* The most actions the two stacks hold together.
MaxStack == 3
Actions == {"p", "q", "r"}

\* list.pop(): the list without its last element.
pop(s) == SubSeq(s, 1, Len(s) - 1)

\* The MHApplication call that produced the state: its name, its action,
\* what action.do() returned (FALSE where it is not called) and the two
\* stacks as the call found them.
AppOp(o, action, ok) ==
  [op |-> o, action |-> action, ok |-> ok, prev |-> lastApp.op,
   undoStack |-> undoStack, redoStack |-> redoStack]

\* A redo that keeps the action only when action.do() succeeds, as do does.
redo_Checked(ok) ==
  /\ lastApp' = AppOp("redo", IF redoStack # <<>> THEN redoStack[Len(redoStack)] ELSE "", ok)
  /\ IF redoStack # <<>>
     THEN /\ redoStack' = pop(redoStack)
          /\ undoStack' = IF ok THEN Append(undoStack, redoStack[Len(redoStack)])
                          ELSE undoStack
          /\ lastDo' = DictSet(lastDo, redoStack[Len(redoStack)], ok)
          /\ modified' = TRUE
     ELSE UNCHANGED <<undoStack, redoStack, modified, lastDo>>
  /\ UNCHANGED <<sceneVars, eventVars, vertVars, objVars, meshVars>>

\* MHApplication.do(action), action.do() returning ok.
do(action, ok) ==
  /\ Len(undoStack) < MaxStack
  /\ lastApp' = AppOp("do", action, ok)
  /\ lastDo' = DictSet(lastDo, action, ok)
  /\ IF ok
     THEN /\ undoStack' = Append(undoStack, action)
          /\ redoStack' = <<>>
          /\ modified' = TRUE
     ELSE UNCHANGED <<undoStack, redoStack, modified>>
  /\ UNCHANGED <<sceneVars, eventVars, vertVars, objVars, meshVars>>

\* MHApplication.did(action).
did(action) ==
  /\ Len(undoStack) < MaxStack
  /\ lastApp' = AppOp("did", action, FALSE)
  /\ undoStack' = Append(undoStack, action)
  /\ modified' = TRUE
  /\ redoStack' = <<>>
  /\ UNCHANGED <<lastDo, sceneVars, eventVars, vertVars, objVars, meshVars>>

\* MHApplication.undo(); the result of action.undo() is not looked at.
undo ==
  /\ lastApp' = AppOp("undo", IF undoStack # <<>> THEN undoStack[Len(undoStack)] ELSE "",
                      FALSE)
  /\ IF undoStack # <<>>
     THEN /\ undoStack' = pop(undoStack)
          /\ redoStack' = Append(redoStack, undoStack[Len(undoStack)])
          /\ modified' = TRUE
     ELSE UNCHANGED <<undoStack, redoStack, modified>>
  /\ UNCHANGED <<lastDo, sceneVars, eventVars, vertVars, objVars, meshVars>>

\* MHApplication.redo(), action.do() returning ok.
redo(ok) ==
  /\ lastApp' = AppOp("redo", IF redoStack # <<>> THEN redoStack[Len(redoStack)] ELSE "", ok)
  /\ IF redoStack # <<>>
     THEN /\ redoStack' = pop(redoStack)
          /\ lastDo' = DictSet(lastDo, redoStack[Len(redoStack)], ok)
          /\ undoStack' = Append(undoStack, redoStack[Len(redoStack)])
          /\ modified' = TRUE
     ELSE UNCHANGED <<undoStack, redoStack, modified, lastDo>>
  /\ UNCHANGED <<sceneVars, eventVars, vertVars, objVars, meshVars>>

\* The actions one of the stacks holds.
Held == {undoStack[i] : i \in 1..Len(undoStack)} \cup {redoStack[i] : i \in 1..Len(redoStack)}

DoStep == \E action \in Actions, ok \in BOOLEAN : do(action, ok)
DidStep == \E action \in Actions : did(action)
UndoStep == undo
RedoStep == \E ok \in BOOLEAN : redo(ok)
\* do() of an action object made for the call.
DoNewStep == \E action \in Actions \ Held, ok \in BOOLEAN : do(action, ok)

NextUndo ==
  \/ DoStep
  \/ DidStep
  \/ UndoStep
  \/ RedoStep

SpecUndo == InitScene /\ [][NextUndo]_vars

\* Runs of do, undo and redo, every do() with an action of its own.
NextDo ==
  \/ DoNewStep
  \/ UndoStep
  \/ RedoStep

SpecDo == InitScene /\ [][NextDo]_vars

\* The eventName, target and slot of the connect that lastOp records.
LastName(op) == [s |-> op.name, n |-> op.key]
LastSlot(op) == Slot(LastName(op), op.obj)

\* C6: a connect issued while a handler is already registered for that event
\* kind and target (the scene or an Object3D; mouse, wheel, motion, named
\* keys, TIMER, character or integer key codes) leaves the first handler
\* registered.
C6_FirstHandlerKept ==
  [][(/\ lastOp'.op = "connect"
      /\ LastSlot(lastOp') # <<>>
      /\ Registered(heap, sceneCB, keyboardEventsDict, LastSlot(lastOp')) # None)
     => Registered(heap', sceneCB', keyboardEventsDict', LastSlot(lastOp'))
          = Registered(heap, sceneCB, keyboardEventsDict, LastSlot(lastOp'))]_vars

\* The invocations made by the last event, by level.
SceneCalls == SelectSeq(calls, LAMBDA c : c.level = "scene")
ObjectCalls == SelectSeq(calls, LAMBDA c : c.level = "object")
CallsOf(f) == {i \in 1..Len(calls) : calls[i].fn = f}
IsMouseEvent == lastOp.op \in {"mouseButtonDown", "mouseButtonUp"} /\ lastOp.name # ""
SceneSlot(kind) == <<None, kind, None>>

\* C7: for every scene-level mouse-button or wheel kind, after connect(kind,
\* f1) and then connect(kind, f2) with no disconnect in between, a matching
\* mouseButtonDown / mouseButtonUp invokes f1 exactly once and never f2.
C7_FirstHandlerInvoked ==
  (/\ IsMouseEvent
   /\ SceneSlot(lastOp.name) \in DOMAIN reg
   /\ Len(reg[SceneSlot(lastOp.name)]) >= 2)
  => /\ Cardinality(CallsOf(reg[SceneSlot(lastOp.name)][1])) = 1
     /\ \A i \in 2..Len(reg[SceneSlot(lastOp.name)]) :
          CallsOf(reg[SceneSlot(lastOp.name)][i]) = {}

C7_Witness ==
  /\ lastOp.op = "mouseButtonDown"
  /\ lastOp.name = "MOUSEWHEELUP"
  /\ SceneSlot("MOUSEWHEELUP") \in DOMAIN reg
  /\ reg[SceneSlot("MOUSEWHEELUP")] = <<1, 2>>
  /\ calls = <<Call("scene", None, 1)>>

\* C8: in mouseButtonDown and mouseButtonUp, for every handled button, the
\* scene-level callback (if registered) is invoked before the object-level
\* callback, and each of the two is invoked at most once per event.
C8_SceneBeforeObject ==
  IsMouseEvent
  => /\ Len(SceneCalls) <= 1
     /\ Len(ObjectCalls) <= 1
     /\ sceneCB[lastOp.name] # None
          => /\ Len(calls) >= 1
             /\ calls[1] = Call("scene", None, sceneCB[lastOp.name])
     /\ calls = SceneCalls \o ObjectCalls

C8_Witness ==
  /\ lastOp.op = "mouseButtonUp"
  /\ lastOp.name = "RMOUSER"
  /\ Len(calls) = 2
  /\ calls[1].level = "scene"
  /\ calls[2].level = "object"

\* The object-level invocation C9 expects for the colour under the pick.
UnderPick(under, kind) ==
  LET pickedInfo == getPickedObject(under)
  IN  IF pickedInfo # NoGroup /\ heap[pickedInfo[2]].callBack[kind] # None
      THEN <<Call("object", pickedInfo[2], heap[pickedInfo[2]].callBack[kind])>>
      ELSE <<>>

\* C9: the object-level callback invoked by a mouse-button or wheel event is
\* the one registered on the object under the pick (the parent of the
\* FaceGroup the current pick colour resolves to), also when another object
\* is flagged isSelected; with nothing under the pick, none is invoked.
C9_DispatchUnderPick ==
  IsMouseEvent => ObjectCalls = UnderPick(lastOp.pick, lastOp.name)

\* The state follows an update call with default arguments on vertex k.
UpdatedByDefault(k) ==
  /\ lastUpd.op \in {"Vert.update", "Object3D.update"}
  /\ lastUpd.dflt
  /\ k \in lastUpd.vs
SlotOf(k, j) == <<verts[k].objID, verts[k].indicesInFullVertArray[j]>>

\* C10 (as stated): after Vert.update with its default arguments, or
\* Object3D.update over the vertex's index, every backend slot listed in the
\* vertex's indicesInFullVertArray holds the vertex's current coordinate,
\* normal and colour.
C10_SlotsHoldAll ==
  \A k \in 1..Len(verts) :
    UpdatedByDefault(k)
    => \A j \in 1..Len(verts[k].indicesInFullVertArray) :
         /\ backend[SlotOf(k, j)].coord = verts[k].co
         /\ backend[SlotOf(k, j)].norm = verts[k].no
         /\ backend[SlotOf(k, j)].color = verts[k].color

\* C10 (amended): after Vert.update with its default arguments, or
\* Object3D.update over the vertex's index, every backend slot listed in the
\* vertex's indicesInFullVertArray holds the vertex's current coordinate and
\* normal.
C10_SlotsHoldCoordNormal ==
  \A k \in 1..Len(verts) :
    UpdatedByDefault(k)
    => \A j \in 1..Len(verts[k].indicesInFullVertArray) :
         /\ backend[SlotOf(k, j)].coord = verts[k].co
         /\ backend[SlotOf(k, j)].norm = verts[k].no

C10_Witness ==
  \E k \in 1..Len(verts) :
    /\ lastUpd.op = "Object3D.update"
    /\ k \in lastUpd.vs
    /\ Len(verts[k].indicesInFullVertArray) >= 2
    /\ verts[k].co # 0
    /\ verts[k].no # 0
    /\ \A j \in 1..Len(verts[k].indicesInFullVertArray) :
         /\ backend[SlotOf(k, j)].coord = verts[k].co
         /\ backend[SlotOf(k, j)].norm = verts[k].no

\* The slots of the buffers that vertex v lists.
ListedSlots(v) ==
  {<<v.objID, v.indicesInFullVertArray[j]>> : j \in 1..Len(v.indicesInFullVertArray)}
\* The vertex the Vert.update recorded in u was called on.
UpdatedVert(u) == verts[CHOOSE k \in u.vs : TRUE]
\* The slots whose colour a Vert.update with the arguments recorded in u sends.
ColourSlots(u) ==
  IF ~IsTrue(u.col) THEN {}
  ELSE IF u.cidx = None THEN ListedSlots(UpdatedVert(u))
  ELSE {<<UpdatedVert(u).objID, u.cidx>>}

SetOnStaleId(o) ==
  lastSet.op = o /\ mhObjCall(heap[lastSet.obj].idx) = "IndexError"

\* C12: setLoc, setRot and setScale called on an object whose id is not
\* valid in the renderer return normally, and the object's transform fields
\* hold the new values.
C12_SettersRecoverable ==
  /\ SetOnStaleId("setLoc")
       => lastSet.raised = "" /\ heap[lastSet.obj].loc = lastSet.val
  /\ SetOnStaleId("setRot")
       => lastSet.raised = "" /\ heap[lastSet.obj].rot = lastSet.val
  /\ SetOnStaleId("setScale")
       => lastSet.raised = "" /\ heap[lastSet.obj].scale = lastSet.val

\* Whether setTexture(path) has to load: the path is not cached, or the
\* file's modification time differs from the cached one.
NeedsLoad(cache, path) ==
  path \notin DOMAIN cache \/ cache[path].modified # files[path]

\* C13: setTexture(path) calls the loader exactly when path is not in the
\* cache or the file's modification time differs from the cached one; a path
\* cached with an unchanged time has its cached handle bound without a load;
\* after every successful call the cache entry of path records the file's
\* current modification time.
C13_CacheProtocol ==
  [][lastSet'.op = "setTexture"
     => /\ lastSet'.loaded = IF NeedsLoad(textureCache, lastSet'.val) THEN 1 ELSE 0
        /\ ~NeedsLoad(textureCache, lastSet'.val)
             => /\ lastSet'.bound = textureCache[lastSet'.val].id
                /\ textureCache' = textureCache
        /\ lastSet'.bound # None
             => /\ lastSet'.val \in DOMAIN textureCache'
                /\ textureCache'[lastSet'.val].modified = files[lastSet'.val]]_vars

C13_Witness ==
  /\ lastSet.op = "setTexture"
  /\ lastSet.loaded = 0
  /\ lastSet.val \in DOMAIN textureCache
  /\ lastSet.bound = textureCache[lastSet.val].id
  /\ files[lastSet.val] > 1
  /\ textureCache[lastSet.val].modified = files[lastSet.val]
  /\ Cardinality(DOMAIN textureCache) = 2

\* C14: when the loader fails inside setTexture, for a path never seen or
\* for a cached path whose file changed, no exception reaches the caller, the
\* call binds no handle to the object, the cache is unchanged, and
\* object.texture is the requested path.
C14_LoadFailureRecoverable ==
  [][(lastSet'.op = "setTexture" /\ NeedsLoad(textureCache, lastSet'.val)
        /\ ~lastSet'.ok)
     => /\ lastSet'.raised = ""
        /\ lastSet'.bound = None
        /\ textureCache' = textureCache
        /\ heap'[lastSet'.obj].texture = lastSet'.val]_vars

C14_Witness ==
  /\ lastSet.op = "setTexture"
  /\ ~lastSet.ok
  /\ lastSet.loaded = 1
  /\ lastSet.bound = None
  /\ lastSet.val \in DOMAIN textureCache
  /\ textureCache[lastSet.val].modified < files[lastSet.val]
  /\ heap[lastSet.obj].texture = lastSet.val

\* The (vertex, uv index) pairs the faces of a face group refer to, and
\* those of a whole object.
GroupPairs(g) ==
  {<<groupFaces(g)[fi].verts[i], fUV(groupFaces(g)[fi])[i]>> :
     fi \in 1..Len(groupFaces(g)), i \in 1..3}
ObjectPairs(u) == UNION {GroupPairs(<<u, k>>) : k \in 1..heap[u].nGroups}
\* The slots the last update() wrote for the object at position i that carry
\* the given pair, and those among them written for group g.
SlotsOfPair(i, pair) ==
  {n \in 1..Len(sent[i]) : <<sent[i][n].v, sent[i][n].uv>> = pair}
SlotsOfPairIn(i, pair, g) == {n \in SlotsOfPair(i, pair) : sent[i][n].group = g}
Rebuilt == lastOp.op = "update"

FirstFace == groupFaces(<<1, 1>>)[1]
SecondFace == IF heap[1].nGroups = 1 THEN groupFaces(<<1, 1>>)[2] ELSE groupFaces(<<1, 2>>)[1]
NoUVVariation ==
  /\ fUV(FirstFace)[2] = fUV(SecondFace)[2]
  /\ fUV(FirstFace)[3] = fUV(SecondFace)[1]
SharedUVDiffer ==
  /\ fUV(FirstFace)[2] # fUV(SecondFace)[2]
  /\ fUV(FirstFace)[3] # fUV(SecondFace)[1]
SlotCounts ==
  /\ NoUVVariation
       => /\ Len(sent[1]) = 4
          /\ ObjectPairs(1) = {<<sent[1][n].v, sent[1][n].uv>> : n \in 1..4}
  /\ SharedUVDiffer
       => /\ Len(sent[1]) = 6
          /\ \A v \in {1, 2} : Cardinality({n \in 1..6 : sent[1][n].v = v}) = 2
          /\ \A v \in {0, 3} : Cardinality({n \in 1..6 : sent[1][n].v = v}) = 1

C17_DenseIds == \A i \in 1..Len(objects) : heap[objects[i]].idx = i - 1

\* C17's case: a deleteObj has removed an object from a scene that holds an
\* object made by newObj and one made by instanceObj.
C17_Witness ==
  /\ lastOp.op = "deleteObj"
  /\ Len(objects) < Len(heap)
  /\ \E i, j \in 1..Len(objects) :
       /\ heap[objects[i]].fgFaces = Own
       /\ heap[objects[j]].fgFaces # Own

\* What C19 says of a step that is a call instanceObj(obj, name) on the
\* object with uid u.
InstanceMade(u, name) ==
  LET n == Len(heap) + 1
  IN  /\ lastOp'.raised = ""
      /\ lastOp'.ret = n
      /\ Len(heap') = n
      /\ objects' = Append(objects, n)
      /\ heap'[n].idx = Len(objects)
      /\ ListOf(n, heap'[n].verts) = ListOf(u, heap[u].verts)
      /\ ListOf(n, heap'[n].faces) = ListOf(u, heap[u].faces)
      /\ heap'[n].nGroups = heap[u].nGroups
      /\ \A k \in 1..heap[u].nGroups :
           /\ fgName(heap', <<n, k>>) = <<name>> \o fgName(heap, <<u, k>>)
           /\ fgFaces(heap', <<n, k>>) = fgFaces(heap, <<u, k>>)
           /\ parent(<<n, k>>) = n
      /\ heap'[u] = heap[u]
IsInstanceCall == lastOp'.op = "instanceObj" /\ lastOp' # lastOp

\* C19: instanceObj(obj, name) on an object built through newObj returns a
\* new object appended at the end of scene.objects, with idx the previous
\* object count, sharing obj's verts and faces lists, holding one new
\* FaceGroup per group of obj (named name + group name, with the same face
\* list and the new object as parent), and leaves obj unchanged.
C19_InstanceOfNewObj ==
  [][(IsInstanceCall /\ heap[lastOp'.obj].fgFaces = Own)
       => InstanceMade(lastOp'.obj, lastOp'.name)]_vars

\* The last operation was a selectObject whose sampled colour has no entry
\* in the colour table.
PickMissed ==
  /\ lastOp.op = "selectObject"
  /\ IDkey(lastOp.pick) \notin DOMAIN faceGroupColorID

\* C18: for a sampled colour absent from the colour table
\* getSelectedFacesGroup and getPickedObject return None, and selectObject
\* ends with no object of the scene selected.
C18_PickMissSelectsNothing ==
  PickMissed
  => /\ lastOp.res = NoGroup
     /\ getPickedObject(lastOp.pick) = NoGroup
     /\ SelectedPositions = {}

\* C18's case: a pick has missed a non-empty table while an object of the
\* scene was the selected one.
C18_Witness ==
  /\ PickMissed
  /\ DOMAIN faceGroupColorID # {}
  /\ \E i \in 1..Len(objects) : heap[objects[i]].faceGroupSelected # NoGroup

\* The slots a vertex lists that the renderer holds, and whether it lists
\* one the renderer does not hold.
HeldSlots(v) == ListedSlots(v) \cap DOMAIN backend
ListsStaleSlot(v) == HeldSlots(v) # ListedSlots(v)

\* C20: Vert.update on a vertex whose slot list contains an index out of
\* range for the renderer does not raise, and the vertex's in-range slots
\* are still updated.
C20_StaleSlotSkipped ==
  (lastUpd.op = "Vert.update" /\ ListsStaleSlot(UpdatedVert(lastUpd)))
  => /\ lastUpd.raised = ""
     /\ \A x \in HeldSlots(UpdatedVert(lastUpd)) :
          /\ IsTrue(lastUpd.coo) => backend[x].coord = UpdatedVert(lastUpd).co
          /\ IsTrue(lastUpd.nor) => backend[x].norm = UpdatedVert(lastUpd).no
          /\ (IsTrue(lastUpd.col) /\ lastUpd.cidx = None)
               => backend[x].color = UpdatedVert(lastUpd).color

\* C21: no colour id allocated to a face group has a channel equal to 255,
\* however many face groups one update() goes through.
C21_NoChannel255 ==
  (lastOp.op = "assignSelectionID" /\ lastOp.n > 0)
  => \A ch \in 1..3 : colorID[ch] # 255

ObjectHandlers ==
  {heap[u].callBack[k] : u \in 1..Len(heap), k \in ObjKinds} \ {None}

\* C23: mouseMotion and keyDown call scene-level handlers only, never a
\* handler registered on an Object3D, whatever is registered and whichever
\* object is selected.
C23_MotionKeysSceneOnly ==
  lastOp.op \in {"mouseMotion", "keyDown"}
  => \A i \in 1..Len(calls) :
       calls[i].level = "scene" /\ calls[i].fn \notin ObjectHandlers

\* C23's case: a mouseMotion with a button held has called the scene's
\* handler while the selected object has a MOTION handler of its own.
C23_Witness ==
  /\ lastOp.op = "mouseMotion"
  /\ lastOp.key # 0
  /\ calls # <<>>
  /\ getSelectedObject(heap) # None
  /\ heap[getSelectedObject(heap)].callBack["MOTION"] # None

\* The operations that deliver an event.
EventOps == {"mouseButtonDown", "mouseButtonUp", "mouseMotion", "keyDown", "timerFunc"}

\* C24: after disconnectAllEvents() an event invokes no scene-level handler
\* until a new connect is made; stated of the event that follows the
\* disconnectAllEvents directly.
C24_NoSceneCallAfterDisconnectAll ==
  [][(lastOp.op = "disconnectAllEvents" /\ lastOp'.op \in EventOps)
       => \A i \in 1..Len(calls') : calls'[i].level # "scene"]_vars

\* C26: for every event name connect accepts for a target, after
\* disconnect(eventName, target) no handler is registered for it, and a
\* connect(eventName, f, target) that follows registers f.
C26_DisconnectUndoesConnect ==
  [][/\ (lastOp'.op = "disconnect" /\ LastSlot(lastOp') # <<>>)
        => Registered(heap', sceneCB', keyboardEventsDict', LastSlot(lastOp')) = None
     /\ (/\ lastOp.op = "disconnect"
         /\ lastOp'.op = "connect"
         /\ LastSlot(lastOp') # <<>>
         /\ LastSlot(lastOp') = LastSlot(lastOp))
        => Registered(heap', sceneCB', keyboardEventsDict', LastSlot(lastOp')) = nConnect']_vars

\* The elements of a list argument (none for None).
Listed(list) == IF list = NoList THEN {} ELSE {list[j] : j \in 1..Len(list)}

\* The normal Face.calcNormal gives the face f over the vertices vs, and the
\* normal Vert.calcNorm gives the vertex with index i over the faces fs.
FreshFaceNo(vs, f) ==
  planeNorm(vs[f.verts[1] + 1].co, vs[f.verts[2] + 1].co, vs[f.verts[3] + 1].co)
FreshVertNo(fs, i) == vnorm(sumNo(fs, sharedFaces(fs, i)))

C27_SlotsResolveToOwner ==
  Rebuilt
  => \A i \in 1..Len(objects) :
       \A n \in 1..Len(sent[i]) :
         /\ getPickedObject(sent[i][n].colorID) # NoGroup
         /\ getPickedObject(sent[i][n].colorID)[2] = objects[i]

\* C28: two consecutive update() calls, with no change to the object list or
\* to any object's face groups in between, assign every FaceGroup the same
\* colour id and leave the colour table identical.
C28_RebuildDeterministic ==
  [][(lastOp.op = "update" /\ lastOp'.op = "update")
     => /\ lastAlloc' = lastAlloc
        /\ faceGroupColorID' = faceGroupColorID
        /\ colorID' = colorID]_vars

\* A second update() in a row over a scene whose ids carried into the second
\* channel.
C28_Witness ==
  /\ lastOp.op = "update"
  /\ lastOp.n = MaxRepeats
  /\ \E g \in DOMAIN lastAlloc : lastAlloc[g][2] > 0

\* C29: where undoStack is non-empty, undo() followed immediately by redo()
\* restores undoStack and redoStack to their contents before the undo, and
\* neither undo nor redo changes the number of actions the two stacks hold.
C29_UndoRedoRoundTrip ==
  [][/\ lastApp'.op \in {"undo", "redo"}
        => Len(undoStack') + Len(redoStack') = Len(undoStack) + Len(redoStack)
     /\ (lastApp.op = "undo" /\ lastApp'.op = "redo")
        => (lastApp.undoStack # <<>>
            => /\ undoStack' = lastApp.undoStack
               /\ redoStack' = lastApp.redoStack)]_vars

\* A redo() right after an undo() that found at least two actions to undo
\* and left one to redo behind it.
C29_Witness ==
  /\ lastApp.op = "redo"
  /\ lastApp.prev = "undo"
  /\ Len(undoStack) >= 2
  /\ redoStack # <<>>

\* C30: after any sequence of do, undo and redo, every action on undoStack
\* is one whose most recent action.do() returned success: a do() or redo()
\* whose action.do() fails does not put the action on undoStack.
C30_OnlyAppliedUndoable ==
  \A i \in 1..Len(undoStack) :
    /\ undoStack[i] \in DOMAIN lastDo
    /\ lastDo[undoStack[i]]

====
